---- MODULE Spec2Model ----
(***************************************************************************)
(* Model of the snapchat-export download core: the backoff policy, the     *)
(* two-step fetch with retries (downloader), the resume manifest           *)
(* (manifest.ts) and the worker-pool orchestrators (cli.ts                 *)
(* downloadWithProgress, downloader downloadMemoriesConcurrent).           *)
(*                                                                         *)
(* The module holds several specifications over one set of variables:      *)
(*   SpecBackoff   calculateBackoffDelay as a pure function                *)
(*   SpecFetch     downloadMemory / downloadMediaWithOverlay retry loop    *)
(*   SpecManifest  the manifest API (create/add/save/load/filter)          *)
(*   Spec          a run of an orchestrator over a shared queue            *)
(*   SpecTwin      such a run over identities that share their first 8     *)
(*                 characters                                              *)
(*   SpecZip       extractMediaFromZip as a pure function of the entries   *)
(*   SpecExpiry    checkUrlExpiration as a pure function of url, threshold *)
(*   SpecLoad      loadManifest against every kind of manifest file        *)
(*   SpecResave    loadManifest, then saveManifest of what it returned     *)
(*   SpecItem      processMemory on one item, every stage able to fail     *)
(*   SpecPace      the start loop and the worker loops against the timers  *)
(*   SpecLive      the first run of an orchestrator under fair scheduling  *)
(* Each specification leaves the variables of the other parts unchanged.   *)
(***************************************************************************)
EXTENDS Integers, Sequences, FiniteSets, TLC

VARIABLES
  \* ---- backoff policy (pure function inputs / result)
  bkAttempt, bkBase, bkRand, bkDelay,
  \* ---- one fetch (downloadMemory / downloadMediaWithOverlay)
  fKind, fHasQuery, fMaxRetries, fAttempt, fPc, fOutcome, fLastError,
  fPosts, fRetryLog, fResponses,
  \* ---- manifest store: the in-memory manifest, the files on disk, the wall clock
  man, disk, clock,
  \* ---- manifest API exercised call by call
  mInput, mPending, mPrev, mAdded, mAgain, mTrail,
  \* ---- a run of an orchestrator: configuration
  mode, catalog, concurrency, skipExisting, skipOverlay, delayPositive, exportAgeHours,
  \* ---- a run of an orchestrator: state
  phase, runNo, pending, queue, launched, wpc, wItem, wSnap, stats, files,
  aborted, results, output,
  \* ---- a run of an orchestrator: what happened so far (observation only)
  popCount, procCount, fetchCount, mediaWrites, anyFailure, outcome, returned,
  loadedKeys, diskAtStart, prevEnd, prevReturned,
  \* ---- the batch orchestrator's results Map (key order) and progress hook
  hook,
  \* ---- bundle extractor (pure function inputs / result)
  zEntries, zMediaType, zResult,
  \* ---- expiry detector (pure function inputs / result, how the url was made)
  xUrl, xThreshold, xNow, xResult, xMade,
  \* ---- one call of loadManifest (its result)
  lResult,
  \* ---- processMemory on one item: options, position, counters, effects
  pCfg, pPc, pAttempt, pPosts, pEvents, pStats, pWritten, pEntry,
  \* ---- pacing of one run: time, timers, start loop and workers
  pace

backoffVars == <<bkAttempt, bkBase, bkRand, bkDelay>>
fetchVars == <<fKind, fHasQuery, fMaxRetries, fAttempt, fPc, fOutcome, fLastError,
               fPosts, fRetryLog, fResponses>>
storeVars == <<man, disk, clock>>
apiVars == <<mInput, mPending, mPrev, mAdded, mAgain, mTrail>>
cfgVars == <<mode, catalog, concurrency, skipExisting, skipOverlay, delayPositive,
             exportAgeHours>>
runVars == <<phase, runNo, pending, queue, launched, wpc, wItem, wSnap, stats, files,
             aborted, results, output>>
histVars == <<popCount, procCount, fetchCount, mediaWrites, anyFailure, outcome,
             returned,
              loadedKeys, diskAtStart, prevEnd, prevReturned>>
orchVars == <<cfgVars, runVars, histVars>>
zipVars == <<zEntries, zMediaType, zResult>>
expiryVars == <<xUrl, xThreshold, xNow, xResult, xMade>>
itemVars == <<pCfg, pPc, pAttempt, pPosts, pEvents, pStats, pWritten, pEntry>>
vars == <<backoffVars, fetchVars, storeVars, apiVars, orchVars, hook, zipVars,
          expiryVars, lResult, itemVars, pace>>

\* what the actions of one part leave alone
BackoffFrame ==
  UNCHANGED <<fetchVars, storeVars, apiVars, orchVars, hook, zipVars, expiryVars, lResult, itemVars, pace>>
FetchFrame ==
  UNCHANGED <<backoffVars, storeVars, apiVars, orchVars, hook, zipVars, expiryVars, lResult, itemVars, pace>>
ApiFrame ==
  UNCHANGED <<backoffVars, fetchVars, orchVars, hook, zipVars, expiryVars, lResult, itemVars, pace>>
BatchFrame ==
  UNCHANGED <<backoffVars, fetchVars, apiVars, clock, cfgVars, zipVars, expiryVars, lResult, itemVars, pace>>
OrchFrame == BatchFrame /\ UNCHANGED hook
ZipFrame ==
  UNCHANGED <<backoffVars, fetchVars, storeVars, apiVars, orchVars, hook, expiryVars, lResult, itemVars, pace>>
ItemFrame ==
  UNCHANGED <<backoffVars, fetchVars, storeVars, apiVars, orchVars, hook, zipVars, expiryVars, lResult, pace>>
LoadFrame ==
  UNCHANGED <<backoffVars, fetchVars, apiVars, orchVars, hook, zipVars, expiryVars, itemVars, pace>>
PaceFrame ==
  UNCHANGED <<backoffVars, fetchVars, storeVars, apiVars, orchVars, hook, zipVars, expiryVars, lResult, itemVars>>
ExpiryFrame ==
  UNCHANGED <<backoffVars, fetchVars, storeVars, apiVars, orchVars, hook, zipVars, lResult, itemVars, pace>>

----------------------------------------------------------------------------
\* Bounds of the model
MaxAttempt == 6        \* attempt numbers 0..MaxAttempt given to calculateBackoffDelay
RandSteps == 4         \* Math.random() is drawn from {0, 1/RandSteps, ..., (RandSteps-1)/RandSteps}
MaxRetriesBound == 2   \* retry ceilings 0..MaxRetriesBound
MaxIds == 2            \* item identities 1..MaxIds
MaxLen == 3            \* longest item list given to filterPendingMemories
MaxClock == 2          \* the wall clock runs 0..MaxClock
MaxCalls == 4          \* manifest API calls made by the sequential caller
MaxItems == 2          \* longest catalog given to an orchestrator
MaxConcurrency == 2    \* configured concurrency 1..MaxConcurrency
MaxRuns == 2           \* invocations of the CLI on one destination root
MaxEntries == 2        \* most entries in a container given to extractMediaFromZip
MaxData == 1           \* longest entry data, in bytes
MaxHours == 8          \* url ages and thresholds up to MaxHours hours
MaxThreads == 3        \* configured concurrency of a paced run 1..MaxThreads
MaxQueue == 3          \* items of a paced run 1..MaxQueue
MaxDelay == 3          \* configured delay of a paced run 0..MaxDelay ms
MaxTime == 5           \* a paced run is followed for MaxTime ms

\* Program constants
BACKOFF_BASE_DELAY_MS == 1000
BACKOFF_MAX_DELAY_MS == 30000
RETRYABLE_STATUS_CODES == {408, 429, 500, 502, 503, 504}

Min(a, b) == IF a <= b THEN a ELSE b

RECURSIVE Pow2(_)
Pow2(n) == IF n = 0 THEN 1 ELSE 2 * Pow2(n - 1)

----------------------------------------------------------------------------
\* Backoff policy.  Delays are kept as exact integers in units of 1/Scale ms,
\* Scale = 4 * RandSteps, so that the 25% jitter of a random draw r/RandSteps
\* needs no fractions:  exp + exp * 0.25 * (2r/RandSteps - 1)
\*                   = (exp * Scale + exp * (2r - RandSteps)) / Scale.
Scale == 4 * RandSteps

BaseDelays == {BACKOFF_BASE_DELAY_MS, 500, 1}

\* baseDelay * 2^attempt
ExponentialDelay(attempt, baseDelay) == baseDelay * Pow2(attempt)

\* mutant: jitter of +-50% instead of +-25%
calculateBackoffDelay_wideJitter(attempt, baseDelay, r) ==
  LET exponentialDelay == ExponentialDelay(attempt, baseDelay)
      jitter == 2 * exponentialDelay * (2 * r - RandSteps)
  IN Min(exponentialDelay * Scale + jitter, BACKOFF_MAX_DELAY_MS * Scale)

\* mutant: the result is not capped
calculateBackoffDelay_uncapped(attempt, baseDelay, r) ==
  LET exponentialDelay == ExponentialDelay(attempt, baseDelay)
      jitter == exponentialDelay * (2 * r - RandSteps)
  IN exponentialDelay * Scale + jitter

\* calculateBackoffDelay(attempt, baseDelay) with Math.random() = r / RandSteps;
\* the result is in units of 1/Scale ms.
calculateBackoffDelay(attempt, baseDelay, r) ==
  LET exponentialDelay == ExponentialDelay(attempt, baseDelay)
      jitter == exponentialDelay * (2 * r - RandSteps)
  IN Min(exponentialDelay * Scale + jitter, BACKOFF_MAX_DELAY_MS * Scale)

BackoffInit ==
  /\ bkAttempt \in 0..MaxAttempt
  /\ bkBase \in BaseDelays
  /\ bkRand \in 0..(RandSteps - 1)
  /\ bkDelay = -1

\* one call of calculateBackoffDelay on the drawn inputs
CalcBackoff ==
  /\ bkDelay = -1
  /\ bkDelay' = calculateBackoffDelay(bkAttempt, bkBase, bkRand)
  /\ UNCHANGED <<bkAttempt, bkBase, bkRand>>
  /\ BackoffFrame

BackoffIdle ==
  /\ bkAttempt = 0 /\ bkBase = BACKOFF_BASE_DELAY_MS /\ bkRand = 0 /\ bkDelay = -1

----------------------------------------------------------------------------
\* Fetcher: downloadMemory and downloadMediaWithOverlay share one retry loop.

StatusCodes == {404, 429, 503}
NetErrors == {"timeout", "fetch failed"}

\* what the endpoint can answer to the POST (exchange) request
PostResponses ==
  [t : {"status"}, code : StatusCodes]
    \cup [t : {"ok"}, body : {"url", "text", "empty"}]
    \cup [t : {"neterr"}, msg : NetErrors]

\* what the signed URL can answer to the GET request
GetResponses ==
  [t : {"status"}, code : StatusCodes]
    \cup [t : {"ok"}, body : {"data", "empty", "bundleNoMedia"}]
    \cup [t : {"neterr"}, msg : NetErrors]

\* errors: a DownloadError carries a status code, any other Error a message
DownloadError(code) == [t |-> "DownloadError", code |-> code, msg |-> ""]
OtherError(msg) == [t |-> "Error", code |-> 0, msg |-> msg]
NoError == [t |-> "none", code |-> 0, msg |-> ""]

\* isRetryableError: status in RETRYABLE_STATUS_CODES for a DownloadError, a
\* network-looking message otherwise ('fetch failed' matches no keyword)
isRetryableError(error) ==
  IF error.t = "DownloadError" THEN error.code \in RETRYABLE_STATUS_CODES
  ELSE error.msg \in {"network", "timeout", "econnreset", "econnrefused", "socket"}

FetchInit ==
  /\ fKind \in {"downloadMemory", "downloadMediaWithOverlay"}
  /\ fHasQuery \in BOOLEAN
  /\ fMaxRetries \in 0..MaxRetriesBound
  /\ fAttempt = 0
  /\ fPc = "start"
  /\ fOutcome = "none"
  /\ fLastError = NoError
  /\ fPosts = 0
  /\ fRetryLog = <<>>
  /\ fResponses = <<>>

FetchIdle ==
  /\ fKind = "downloadMemory" /\ fHasQuery = TRUE /\ fMaxRetries = 0
  /\ fAttempt = 0 /\ fPc = "idle" /\ fOutcome = "none" /\ fLastError = NoError
  /\ fPosts = 0 /\ fRetryLog = <<>> /\ fResponses = <<>>

\* mutant: the retry test allows one retry too many (attempt <= maxRetries)
ShouldRetry_offByOne(attempt, maxRetries, error) ==
  attempt <= maxRetries /\ isRetryableError(error)

\* the test made at every failure point of the loop body
ShouldRetry(attempt, maxRetries, error) ==
  attempt < maxRetries /\ isRetryableError(error)

\* the common handling of a failed attempt: retry (lastError, onRetry(attempt + 1,
\* delay, error), sleep, continue) or throw the error out of the function
HandleFailure(error, r) ==
  IF ShouldRetry(fAttempt, fMaxRetries, error)
  THEN /\ fLastError' = error
       /\ fRetryLog' = Append(fRetryLog,
            [attempt |-> fAttempt + 1,
             delay |-> calculateBackoffDelay(fAttempt, BACKOFF_BASE_DELAY_MS, r)])
       /\ fPc' = "sleep"
       /\ fOutcome' = fOutcome
  ELSE /\ fLastError' = error
       /\ fRetryLog' = fRetryLog
       /\ fPc' = "done"
       /\ fOutcome' = "failed"

\* url.split('?'): a URL without query parameters is thrown before any request
FetchStart ==
  /\ fPc = "start"
  /\ IF fHasQuery
     THEN /\ fPc' = "post"
          /\ UNCHANGED <<fOutcome, fLastError>>
     ELSE /\ fPc' = "done"
          /\ fOutcome' = "failed"
          /\ fLastError' = DownloadError(0)
  /\ UNCHANGED <<fKind, fHasQuery, fMaxRetries, fAttempt, fPosts, fRetryLog, fResponses>>
  /\ FetchFrame

\* step 1 of an attempt: POST to the proxy, answer resp
FetchPost ==
  /\ fPc = "post"
  /\ \E resp \in PostResponses, r \in 0..(RandSteps - 1) :
       /\ fPosts' = fPosts + 1
       /\ fResponses' = Append(fResponses, resp)
       /\ CASE resp.t = "status" -> HandleFailure(DownloadError(resp.code), r)
            [] resp.t = "neterr" -> HandleFailure(OtherError(resp.msg), r)
            [] resp.t = "ok" /\ resp.body # "url" -> HandleFailure(DownloadError(0), r)
            [] OTHER -> /\ fPc' = "get"
                        /\ UNCHANGED <<fOutcome, fLastError, fRetryLog>>
  /\ UNCHANGED <<fKind, fHasQuery, fMaxRetries, fAttempt>>
  /\ FetchFrame

\* step 2 of an attempt: GET the signed URL, answer resp
FetchGet ==
  /\ fPc = "get"
  /\ \E resp \in GetResponses, r \in 0..(RandSteps - 1) :
       /\ fResponses' = Append(fResponses, resp)
       /\ CASE resp.t = "status" -> HandleFailure(DownloadError(resp.code), r)
            [] resp.t = "neterr" -> HandleFailure(OtherError(resp.msg), r)
            [] resp.t = "ok" /\ resp.body = "empty" -> HandleFailure(DownloadError(200), r)
            [] /\ resp.t = "ok" /\ resp.body = "bundleNoMedia"
               /\ fKind = "downloadMediaWithOverlay" ->
                 \* return extractMediaFromZip(...): its rejection is not awaited
                 \* inside the try, it leaves the function past the catch
                 /\ fPc' = "done"
                 /\ fOutcome' = "failed"
                 /\ fLastError' = DownloadError(0)
                 /\ fRetryLog' = fRetryLog
            [] OTHER -> /\ fPc' = "done"
                        /\ fOutcome' = "success"
                        /\ UNCHANGED <<fLastError, fRetryLog>>
  /\ UNCHANGED <<fKind, fHasQuery, fMaxRetries, fAttempt, fPosts>>
  /\ FetchFrame

\* the backoff sleep ends: continue with the next iteration of the for loop
FetchWake ==
  /\ fPc = "sleep"
  /\ fAttempt' = fAttempt + 1
  /\ IF fAttempt + 1 <= fMaxRetries
     THEN fPc' = "post" /\ fOutcome' = fOutcome
     ELSE fPc' = "done" /\ fOutcome' = "failed"   \* throw lastError
  /\ UNCHANGED <<fKind, fHasQuery, fMaxRetries, fLastError, fPosts, fRetryLog, fResponses>>
  /\ FetchFrame


----------------------------------------------------------------------------
\* Manifest store (manifest.ts)

MANIFEST_VERSION == 1
MediaTypes == {"Image", "Video"}
Dirs == {"out", "alt"}
Ids == 1..MaxIds

\* a SnapchatMemory, reduced to the fields the manifest reads
Items == [mediaId : Ids, mediaType : MediaTypes, date : {100}]

NoManifest == [version |-> 0, createdAt |-> 0, updatedAt |-> 0, outputDir |-> "",
               entries |-> <<>>]

\* createManifest(outputDir) at wall-clock time now
createManifest(outputDir, now) ==
  [version |-> MANIFEST_VERSION, createdAt |-> now, updatedAt |-> now,
   outputDir |-> outputDir, entries |-> <<>>]

\* Object.keys(manifest.entries) as a set
getDownloadedIds(manifest) ==
  {manifest.entries[i].mediaId : i \in 1..Len(manifest.entries)}

\* mediaId in manifest.entries
isDownloaded(manifest, mediaId) == mediaId \in getDownloadedIds(manifest)

\* entries[key] = entry on a JS object: an existing key keeps its place and takes
\* the new value, a new key is appended
SetKey(entries, entry) ==
  IF \E i \in 1..Len(entries) : entries[i].mediaId = entry.mediaId
  THEN [i \in 1..Len(entries) |->
          IF entries[i].mediaId = entry.mediaId THEN entry ELSE entries[i]]
  ELSE Append(entries, entry)

\* the entry addManifestEntry builds
ManifestEntryOf(memory, filePath, fileSize, now) ==
  [mediaId |-> memory.mediaId, downloadedAt |-> now, filePath |-> filePath,
   fileSize |-> fileSize, mediaType |-> memory.mediaType, originalDate |-> memory.date]

\* mutant: the entry is stored under a fixed key instead of the item's identity
addManifestEntry_fixedKey(manifest, memory, filePath, fileSize, now) ==
  [manifest EXCEPT !.entries =
     SetKey(@, [ManifestEntryOf(memory, filePath, fileSize, now) EXCEPT !.mediaId = 1])]

\* addManifestEntry: the manifest after manifest.entries[memory.mediaId] = entry
addManifestEntry(manifest, memory, filePath, fileSize, now) ==
  [manifest EXCEPT !.entries = SetKey(@, ManifestEntryOf(memory, filePath, fileSize, now))]

RECURSIVE FilterFrom(_, _, _)
FilterFrom(memories, i, downloadedIds) ==
  IF i > Len(memories) THEN <<>>
  ELSE IF memories[i].mediaId \notin downloadedIds
       THEN <<memories[i]>> \o FilterFrom(memories, i + 1, downloadedIds)
       ELSE FilterFrom(memories, i + 1, downloadedIds)

\* mutant: the filter stops at the first already-downloaded item
RECURSIVE FilterFrom_stops(_, _, _)
FilterFrom_stops(memories, i, downloadedIds) ==
  IF i > Len(memories) THEN <<>>
  ELSE IF memories[i].mediaId \notin downloadedIds
       THEN <<memories[i]>> \o FilterFrom_stops(memories, i + 1, downloadedIds)
       ELSE <<>>

filterPendingMemories_stops(memories, manifest) ==
  FilterFrom_stops(memories, 1, getDownloadedIds(manifest))

\* filterPendingMemories: memories.filter(m => !downloadedIds.has(m.mediaId))
filterPendingMemories(memories, manifest) ==
  FilterFrom(memories, 1, getDownloadedIds(manifest))

\* getManifestStats
getManifestStats(manifest) ==
  [total |-> Len(manifest.entries),
   images |-> Cardinality({i \in 1..Len(manifest.entries) :
                             manifest.entries[i].mediaType = "Image"}),
   videos |-> Cardinality({i \in 1..Len(manifest.entries) :
                             manifest.entries[i].mediaType = "Video"})]

\* ---- the manifest file.  JSON text is kept as the list of its members: the
\* entries object becomes a list of <<key, value>> pairs, each value the tuple of
\* the entry's fields in the order they are written.
EntryToJson(e) ==
  <<e.mediaId, <<e.mediaId, e.downloadedAt, e.filePath, e.fileSize, e.mediaType,
                 e.originalDate>>>>

EntryFromJson(pair) ==
  [mediaId |-> pair[2][1], downloadedAt |-> pair[2][2], filePath |-> pair[2][3],
   fileSize |-> pair[2][4], mediaType |-> pair[2][5], originalDate |-> pair[2][6]]

\* mutant: the serialiser writes the entries without their file size
JSONStringify_dropsSize(manifest) ==
  [version |-> manifest.version, createdAt |-> manifest.createdAt,
   updatedAt |-> manifest.updatedAt, outputDir |-> manifest.outputDir,
   entries |-> [i \in 1..Len(manifest.entries) |->
                  EntryToJson([manifest.entries[i] EXCEPT !.fileSize = 0])]]

\* JSON.stringify(manifest, null, 2)
JSONStringify(manifest) ==
  [version |-> manifest.version, createdAt |-> manifest.createdAt,
   updatedAt |-> manifest.updatedAt, outputDir |-> manifest.outputDir,
   entries |-> [i \in 1..Len(manifest.entries) |-> EntryToJson(manifest.entries[i])]]

RECURSIVE ParseEntries(_, _, _)
ParseEntries(pairs, i, acc) ==
  IF i > Len(pairs) THEN acc
  ELSE ParseEntries(pairs, i + 1, SetKey(acc, EntryFromJson(pairs[i])))

\* JSON.parse(content) as ExportManifest
JSONParse(text) ==
  [version |-> text.version, createdAt |-> text.createdAt, updatedAt |-> text.updatedAt,
   outputDir |-> text.outputDir, entries |-> ParseEntries(text.entries, 1, <<>>)]

\* A file is absent, empty (opened with 'w', nothing written yet), well-formed
\* JSON, or garbled (a shorter text written over a longer one).  len is the
\* length of the longest text written since the last truncation, counted in
\* entries: a text with more entries is longer.
NoText == [version |-> 0, createdAt |-> 0, updatedAt |-> 0, outputDir |-> "",
           entries |-> <<>>]
AbsentFile == [st |-> "absent", text |-> NoText, len |-> 0]
EmptyFile == [st |-> "empty", text |-> NoText, len |-> 0]
TextLen(text) == Len(text.entries) + 1

\* open(path, 'w'): create or truncate
OpenTruncate(file) == EmptyFile

\* write(fd, text) at offset 0 of a file some other descriptor may have written
WriteAt0(file, text) ==
  IF TextLen(text) >= file.len
  THEN [st |-> "json", text |-> text, len |-> TextLen(text)]
  ELSE [st |-> "garbled", text |-> NoText, len |-> file.len]

loadManifest_keepsOtherVersions(file, outputDir, now) ==
  IF file.st = "absent" THEN [ok |-> TRUE, manifest |-> createManifest(outputDir, now)]
  ELSE IF file.st = "json"
       THEN [ok |-> TRUE, manifest |-> JSONParse(file.text)]
       ELSE [ok |-> FALSE, manifest |-> NoManifest]

\* loadManifest(outputDir) reading file = the manifest file under outputDir:
\* ENOENT gives a fresh manifest, a version mismatch a fresh manifest, text that
\* does not parse is thrown (ok = FALSE)
loadManifest(file, outputDir, now) ==
  IF file.st = "absent" THEN [ok |-> TRUE, manifest |-> createManifest(outputDir, now)]
  ELSE IF file.st = "json"
       THEN IF JSONParse(file.text).version # MANIFEST_VERSION
            THEN [ok |-> TRUE, manifest |-> createManifest(outputDir, now)]
            ELSE [ok |-> TRUE, manifest |-> JSONParse(file.text)]
       ELSE [ok |-> FALSE, manifest |-> NoManifest]

\* saveManifest, first statement: manifest.updatedAt = new Date().toISOString()
Restamp(manifest, now) == [manifest EXCEPT !.updatedAt = now]

----------------------------------------------------------------------------
\* Output path of an item (exporter generateFilename / generateOutputPath).  The
\* file name holds the capture date, the kind prefix, the first 8 characters of
\* the identity and the extension.  Identities 2k-1 and 2k stand for two
\* identities with the same first 8 characters.
ShortId(mediaId) == (mediaId + 1) \div 2

generateFilename(memory, extension) ==
  <<memory.date, IF memory.mediaType = "Image" THEN "photo" ELSE "video",
    ShortId(memory.mediaId), extension>>

generateOutputPath(memory, extension, outputDir) ==
  <<outputDir>> \o generateFilename(memory, extension)

\* the extension a plain download of the item's kind gets when the content type
\* names no known format
FallbackExtension(mediaType) == IF mediaType = "Image" THEN "jpg" ELSE "mp4"

----------------------------------------------------------------------------
\* The manifest API called step by step by a sequential caller.

FileSizes == {1, 2}
NotComputed == [valid |-> FALSE, list |-> <<>>]
NoItem == [mediaId |-> 0, mediaType |-> "", date |-> 0]

ItemLists == UNION {[1..n -> Items] : n \in 0..MaxLen}

StoreIdle ==
  /\ man = NoManifest
  /\ disk = [d \in Dirs |-> AbsentFile]
  /\ clock = 0

ApiIdle ==
  /\ mInput = <<>> /\ mPending = NotComputed /\ mPrev = NotComputed
  /\ mAdded = NoItem /\ mAgain = NotComputed /\ mTrail = <<>>

\* ---- pending-set filtering against a manifest that grows by addManifestEntry
FilterInit ==
  /\ mInput \in ItemLists
  /\ man = createManifest("out", 0)
  /\ disk = [d \in Dirs |-> AbsentFile]
  /\ clock = 0
  /\ mPending = NotComputed /\ mPrev = NotComputed
  /\ mAdded = NoItem /\ mAgain = NotComputed /\ mTrail = <<>>

\* pending = filterPendingMemories(input, manifest)
ApiFilter ==
  /\ mPending' = [valid |-> TRUE, list |-> filterPendingMemories(mInput, man)]
  /\ mPrev' = IF mPending.valid THEN NotComputed ELSE mPrev
  /\ mAdded' = IF mPending.valid THEN NoItem ELSE mAdded
  /\ mAgain' = NotComputed
  /\ UNCHANGED <<mInput, mTrail, man, disk, clock>>
  /\ ApiFrame

\* filterPendingMemories(pending, manifest) on the result of the last call
ApiFilterAgain ==
  /\ mPending.valid
  /\ ~mAgain.valid
  /\ mAgain' = [valid |-> TRUE, list |-> filterPendingMemories(mPending.list, man)]
  /\ UNCHANGED <<mInput, mPending, mPrev, mAdded, mTrail, man, disk, clock>>
  /\ ApiFrame

\* addManifestEntry(manifest, x, path, size) for any item x
ApiAddEntry ==
  /\ man # NoManifest
  /\ \E x \in Items :
       /\ man' = addManifestEntry(man, x,
                   generateOutputPath(x, FallbackExtension(x.mediaType), man.outputDir),
                   1, clock)
       /\ mAdded' = x
  /\ man' # man
  /\ mPrev' = mPending
  /\ mPending' = NotComputed
  /\ mAgain' = NotComputed
  /\ mTrail' = <<>>
  /\ UNCHANGED <<mInput, disk, clock>>
  /\ ApiFrame

\* ---- create / save / load against the disk
ManifestInit ==
  /\ man = createManifest("out", 0)
  /\ disk = [d \in Dirs |-> AbsentFile]
  /\ clock = 0
  /\ ApiIdle

Calls == Len(mTrail)

\* the wall clock advances; only a call reads it
Tick ==
  /\ clock < MaxClock
  /\ Calls < MaxCalls
  /\ clock' = clock + 1
  /\ UNCHANGED <<man, disk, apiVars>>
  /\ ApiFrame

\* createManifest(d)
ApiCreate ==
  /\ Calls < MaxCalls
  /\ \E d \in Dirs : man' = createManifest(d, clock)
  /\ mTrail' = Append(mTrail, [op |-> "create", dir |-> man'.outputDir, m |-> man'])
  /\ UNCHANGED <<disk, clock, mInput, mPending, mPrev, mAdded, mAgain>>
  /\ ApiFrame

\* addManifestEntry on the manifest in hand
ApiRecord ==
  /\ Calls < MaxCalls
  /\ man # NoManifest
  /\ \E x \in Items :
       man' = addManifestEntry(man, x,
                generateOutputPath(x, FallbackExtension(x.mediaType), man.outputDir),
                1, clock)
  /\ mTrail' = Append(mTrail, [op |-> "add", dir |-> man.outputDir, m |-> man'])
  /\ UNCHANGED <<disk, clock, mInput, mPending, mPrev, mAdded, mAgain>>
  /\ ApiFrame

\* saveManifest(manifest), awaited: restamp, stringify, open 'w', write
ApiSave ==
  /\ Calls < MaxCalls
  /\ man # NoManifest
  /\ man' = Restamp(man, clock)
  /\ disk' = [disk EXCEPT ![man.outputDir] =
                WriteAt0(OpenTruncate(@), JSONStringify(man'))]
  /\ mTrail' = Append(mTrail, [op |-> "save", dir |-> man.outputDir, m |-> man'])
  /\ UNCHANGED <<clock, mInput, mPending, mPrev, mAdded, mAgain>>
  /\ ApiFrame

\* manifest = await loadManifest(d)
ApiLoad ==
  /\ Calls < MaxCalls
  /\ \E d \in Dirs :
       LET r == loadManifest(disk[d], d, clock)
       IN /\ r.ok
          /\ man' = r.manifest
          /\ mTrail' = Append(mTrail, [op |-> "load", dir |-> d, m |-> man'])
  /\ UNCHANGED <<disk, clock, mInput, mPending, mPrev, mAdded, mAgain>>
  /\ ApiFrame

----------------------------------------------------------------------------
\* Bundle extractor: extractMediaFromZip over the entries zip.getEntries() gives.
\* An entry name is the sequence of its characters, entry data a sequence of bytes.

LowerChar(c) ==
  CASE c = "B" -> "b"
    [] c = "P" -> "p"
    [] c = "N" -> "n"
    [] c = "G" -> "g"
    [] OTHER -> c
toLowerCase(s) == [i \in 1..Len(s) |-> LowerChar(s[i])]
endsWith(s, suffix) ==
  /\ Len(s) >= Len(suffix)
  /\ SubSeq(s, Len(s) - Len(suffix) + 1, Len(s)) = suffix
includes(s, part) ==
  \E i \in 1..(Len(s) - Len(part) + 1) : SubSeq(s, i, i + Len(part) - 1) = part

\* the string literals of extractMediaFromZip
DotPng == <<".", "p", "n", "g">>
DotJpg == <<".", "j", "p", "g">>
DotJpeg == <<".", "j", "p", "e", "g">>
DotMp4 == <<".", "m", "p", "4">>
DotMov == <<".", "m", "o", "v">>
OverlayWord == <<"o", "v", "e", "r", "l", "a", "y">>
OverlayPng == OverlayWord \o DotPng

\* a Buffer | null value: Null, or a buffer of any length (zero included)
Null == <<>>
Some(buffer) == <<buffer>>
\* !x for x of type Buffer | null: a Buffer is an object, truthy whatever its length
Not(x) == x = Null

\* entry names and data the containers are drawn from
FileNames ==
  { OverlayPng,
    <<"m", "a", "i", "n">> \o DotJpg,
    <<"c", "l", "i", "p">> \o DotMp4,
    <<"a">> \o DotJpeg,
    <<"B", ".", "P", "N", "G">>,
    <<"c">> \o DotMov,
    <<"n", ".", "t", "x", "t">> }
DirectoryNames == { <<"d", "/">> }
Buffers == UNION {[1..n -> {0, 255}] : n \in 0..MaxData}
ZipEntries ==
  [entryName : FileNames, isDirectory : {FALSE}, data : Buffers]
    \cup [entryName : DirectoryNames, isDirectory : {TRUE}, data : {<<>>}]
Containers == UNION {[1..n -> ZipEntries] : n \in 0..MaxEntries}

NotExtracted == [done |-> FALSE, ok |-> FALSE, value |-> <<>>, error |-> <<>>]
Resolved(contents) == [done |-> TRUE, ok |-> TRUE, value |-> <<contents>>, error |-> <<>>]
Rejected(err) == [done |-> TRUE, ok |-> FALSE, value |-> <<>>, error |-> <<err>>]

NoMediaError == [DownloadError(0) EXCEPT !.msg = "No media file found in ZIP archive"]

FirstPassEntry_keepsItemKind(st, entry) ==
  LET name == toLowerCase(entry.entryName) IN
  IF entry.isDirectory THEN st
  ELSE IF endsWith(name, DotPng) /\ (includes(name, OverlayWord) \/ name = OverlayPng)
    THEN [st EXCEPT !.overlay = Some(entry.data)]
  ELSE IF endsWith(name, DotJpg) \/ endsWith(name, DotJpeg) \/ endsWith(name, DotMp4)
    THEN [st EXCEPT !.baseMedia = Some(entry.data)]
  ELSE IF endsWith(name, DotPng) /\ Not(st.overlay)
    THEN [st EXCEPT !.overlay = Some(entry.data)]
  ELSE st

\* mutant: an unlabeled .png replaces the overlay found before it
FirstPassEntry_unlabeledReplaces(st, entry) ==
  LET name == toLowerCase(entry.entryName) IN
  IF entry.isDirectory THEN st
  ELSE IF endsWith(name, DotPng) /\ (includes(name, OverlayWord) \/ name = OverlayPng)
    THEN [st EXCEPT !.overlay = Some(entry.data)]
  ELSE IF endsWith(name, DotJpg) \/ endsWith(name, DotJpeg)
    THEN [st EXCEPT !.baseMedia = Some(entry.data), !.baseMediaType = "jpg"]
  ELSE IF endsWith(name, DotMp4)
    THEN [st EXCEPT !.baseMedia = Some(entry.data), !.baseMediaType = "mp4"]
  ELSE IF endsWith(name, DotPng)
    THEN [st EXCEPT !.overlay = Some(entry.data)]
  ELSE st

\* one iteration of the first loop over the entries
FirstPassEntry(st, entry) ==
  LET name == toLowerCase(entry.entryName) IN
  IF entry.isDirectory THEN st
  ELSE IF endsWith(name, DotPng) /\ (includes(name, OverlayWord) \/ name = OverlayPng)
    THEN [st EXCEPT !.overlay = Some(entry.data)]
  ELSE IF endsWith(name, DotJpg) \/ endsWith(name, DotJpeg)
    THEN [st EXCEPT !.baseMedia = Some(entry.data), !.baseMediaType = "jpg"]
  ELSE IF endsWith(name, DotMp4)
    THEN [st EXCEPT !.baseMedia = Some(entry.data), !.baseMediaType = "mp4"]
  ELSE IF endsWith(name, DotPng) /\ Not(st.overlay)
    THEN [st EXCEPT !.overlay = Some(entry.data)]
  ELSE st

RECURSIVE FirstPass(_, _)
FirstPass(entries, st) ==
  IF entries = <<>> THEN st
  ELSE FirstPass(Tail(entries), FirstPassEntry(st, Head(entries)))

RECURSIVE SecondPass_anyFile(_, _)
SecondPass_anyFile(entries, st) ==
  IF entries = <<>> THEN st
  ELSE IF Head(entries).isDirectory THEN SecondPass_anyFile(Tail(entries), st)
  ELSE [st EXCEPT !.baseMedia = Some(Head(entries).data)]

\* the second loop: the first image or video entry, in file order
RECURSIVE SecondPass(_, _)
SecondPass(entries, st) ==
  IF entries = <<>> THEN st
  ELSE
    LET entry == Head(entries)
        name == toLowerCase(entry.entryName)
    IN
    IF entry.isDirectory THEN SecondPass(Tail(entries), st)
    ELSE IF endsWith(name, DotJpg) \/ endsWith(name, DotJpeg) \/ endsWith(name, DotPng)
      THEN [st EXCEPT !.baseMedia = Some(entry.data), !.baseMediaType = "jpg"]
    ELSE IF endsWith(name, DotMp4) \/ endsWith(name, DotMov)
      THEN [st EXCEPT !.baseMedia = Some(entry.data), !.baseMediaType = "mp4"]
    ELSE SecondPass(Tail(entries), st)

extractMediaFromZip(entries, mediaType) ==
  LET start == [baseMedia |-> Null,
                baseMediaType |-> IF mediaType = "Image" THEN "jpg" ELSE "mp4",
                overlay |-> Null]
      first == FirstPass(entries, start)
      second == IF Not(first.baseMedia) THEN SecondPass(entries, first) ELSE first
  IN
  IF Not(second.baseMedia) THEN Rejected(NoMediaError) ELSE Resolved(second)

ZipInit ==
  /\ zEntries \in Containers
  /\ zMediaType \in {"Image", "Video"}
  /\ zResult = NotExtracted

ZipExtract ==
  /\ ~zResult.done
  /\ zResult' = extractMediaFromZip(zEntries, zMediaType)
  /\ UNCHANGED <<zEntries, zMediaType>>
  /\ ZipFrame

ZipIdle ==
  /\ zEntries = <<>> /\ zMediaType = "Image" /\ zResult = NotExtracted

----------------------------------------------------------------------------
\* Expiry detector: checkUrlExpiration.  A url is what new URL(url) makes of it:
\* whether it parses, and the value of searchParams.get('ts') as a sequence of
\* characters (Null when the parameter is absent).  Times are in milliseconds.
URL_EXPIRATION_HOURS == 6
MsPerHour == 1000 * 60 * 60

Digits == <<"0", "1", "2", "3", "4", "5", "6", "7", "8", "9">>
IsDigit(c) == \E d \in 1..10 : Digits[d] = c
DigitValue(c) == (CHOOSE d \in 1..10 : Digits[d] = c) - 1

\* Number.prototype.toString for a non-negative integer
RECURSIVE ToDigits(_)
ToDigits(n) ==
  IF n < 10 THEN <<Digits[n + 1]>>
  ELSE ToDigits(n \div 10) \o <<Digits[(n % 10) + 1]>>

NaN == [nan |-> TRUE, n |-> 0]
Num(n) == [nan |-> FALSE, n |-> n]

RECURSIVE SkipSpaces(_)
SkipSpaces(s) == IF s # <<>> /\ Head(s) = " " THEN SkipSpaces(Tail(s)) ELSE s

\* the value of the longest prefix of decimal digits of s, acc being the value so far
RECURSIVE DigitPrefix(_, _)
DigitPrefix(s, acc) ==
  IF s # <<>> /\ IsDigit(Head(s))
    THEN DigitPrefix(Tail(s), 10 * acc + DigitValue(Head(s)))
    ELSE acc

\* parseInt(s, 10): leading white space, an optional sign, then the longest run
\* of digits; NaN when there is no digit there
parseInt(s) ==
  LET t == SkipSpaces(s)
      signed == t # <<>> /\ Head(t) \in {"-", "+"}
      body == IF signed THEN Tail(t) ELSE t
      magnitude == DigitPrefix(body, 0)
  IN
  IF body = <<>> \/ ~IsDigit(Head(body)) THEN NaN
  ELSE IF signed /\ Head(t) = "-" THEN Num(0 - magnitude)
  ELSE Num(magnitude)

\* Math.round(x * 10) of x = ageMs / MsPerHour: the nearest integer, halves upwards
RoundTenths(ageMs) == (10 * ageMs + (MsPerHour \div 2)) \div MsPerHour

UnknownExpiration == [isExpired |-> FALSE, ageTenths |-> 0, timestamp |-> Null]

checkUrlExpiration_atThreshold(url, thresholdHours, now) ==
  IF ~url.parses THEN UnknownExpiration
  ELSE IF url.ts = Null \/ url.ts = Some(<<>>) THEN UnknownExpiration
  ELSE IF parseInt(url.ts[1]).nan THEN UnknownExpiration
  ELSE
    LET timestamp == parseInt(url.ts[1]).n
        ageMs == now - timestamp
    IN [isExpired |-> ageMs >= thresholdHours * MsPerHour,
        ageTenths |-> RoundTenths(ageMs),
        timestamp |-> Some(timestamp)]

\* ageHours is kept in tenths of an hour
checkUrlExpiration(url, thresholdHours, now) ==
  IF ~url.parses THEN UnknownExpiration
  ELSE IF url.ts = Null \/ url.ts = Some(<<>>) THEN UnknownExpiration
  ELSE IF parseInt(url.ts[1]).nan THEN UnknownExpiration
  ELSE
    LET timestamp == parseInt(url.ts[1]).n
        ageMs == now - timestamp
    IN [isExpired |-> ageMs > thresholdHours * MsPerHour,
        ageTenths |-> RoundTenths(ageMs),
        timestamp |-> Some(timestamp)]

\* the urls the detector is given: how each was made, and the text that results
Thresholds == 0..MaxHours
NowMs == (MaxHours + 1) * MsPerHour
AgeOffsets == {-1, 0, 1, (MsPerHour \div 20) - 1, MsPerHour \div 20}
Issued == {NowMs - (h * MsPerHour + off) : h \in (-1)..MaxHours, off \in AgeOffsets}
Affixes == {<<>>, <<"a", "b", "c">>, <<".", "5">>}
Leads == {<<>>, <<" ">>, <<"+">>, <<"-">>}
UrlKinds ==
  [kind : {"number"}, lead : Leads, n : Issued, rest : Affixes]
    \cup [kind : {"invalid", "absent", "empty", "word", "sign"},
          lead : {<<>>}, n : {0}, rest : {<<>>}]
UrlOf(made) ==
  CASE made.kind = "invalid" -> [parses |-> FALSE, ts |-> Null]
    [] made.kind = "absent" -> [parses |-> TRUE, ts |-> Null]
    [] made.kind = "empty" -> [parses |-> TRUE, ts |-> Some(<<>>)]
    [] made.kind = "word" -> [parses |-> TRUE, ts |-> Some(<<"a", "b", "c">>)]
    [] made.kind = "sign" -> [parses |-> TRUE, ts |-> Some(<<"-">>)]
    [] OTHER -> [parses |-> TRUE, ts |-> Some(made.lead \o ToDigits(made.n) \o made.rest)]

NotChecked == [done |-> FALSE, info |-> UnknownExpiration]

ExpiryInit ==
  /\ xMade \in UrlKinds
  /\ xUrl = UrlOf(xMade)
  /\ xThreshold \in Thresholds
  /\ xNow = NowMs
  /\ xResult = NotChecked

CheckExpiry ==
  /\ ~xResult.done
  /\ xResult' = [done |-> TRUE, info |-> checkUrlExpiration(xUrl, xThreshold, xNow)]
  /\ UNCHANGED <<xUrl, xThreshold, xNow, xMade>>
  /\ ExpiryFrame

ExpiryIdle ==
  /\ xMade = [kind |-> "absent", lead |-> <<>>, n |-> 0, rest |-> <<>>]
  /\ xUrl = UrlOf(xMade)
  /\ xThreshold = URL_EXPIRATION_HOURS
  /\ xNow = 0
  /\ xResult = NotChecked

----------------------------------------------------------------------------
\* Orchestrators: cli.ts runExport + downloadWithProgress (mode "cli") and the
\* downloader's downloadMemoriesConcurrent + downloadWorker (mode "batch").
\* A fetch is one step here (its retry loop is SpecFetch); every await of the
\* worker's path is a step of its own, so workers interleave as the event loop
\* and the I/O thread pool allow.

OutDir == "out"
Workers == 1..MaxConcurrency
Positions == 1..MaxItems

\* the i-th catalog item: odd items are pictures carrying a bundle descriptor
\* (mediaDownloadUrl), even items are clips without one
ItemAt(i) ==
  [mediaId |-> i, mediaType |-> IF i % 2 = 1 THEN "Image" ELSE "Video",
   date |-> 100, mediaDownloadUrl |-> (i % 2 = 1)]

CatalogOf(n) == [i \in 1..n |-> ItemAt(i)]
\* the parser keeps two rows of the export that give the same identity (the
\* same link twice): the catalog of n items whose last item repeats the first
RepeatingCatalogOf(n) == [CatalogOf(n) EXCEPT ![n] = ItemAt(1)]
Catalogs == {CatalogOf(n) : n \in 1..MaxItems}
              \cup {RepeatingCatalogOf(n) : n \in 2..MaxItems}
\* two rows of the export with different identities that agree in their first 8
\* characters, their capture second and their kind: the catalog of n items
\* whose second item is a picture like the first, with the identity 2
TwinCatalogOf(n) == [CatalogOf(n) EXCEPT ![2] = [ItemAt(1) EXCEPT !.mediaId = 2]]
TwinCatalogs == {TwinCatalogOf(n) : n \in 2..MaxItems}

PathOf(memory) == generateOutputPath(memory, FallbackExtension(memory.mediaType), OutDir)

\* a manifest left by earlier runs: entries for the identities in keys
StoredManifest(keys) ==
  LET Kept(m) == m.mediaId \in keys
      items == SelectSeq(CatalogOf(MaxItems), Kept)
  IN [createManifest(OutDir, 0) EXCEPT !.entries =
        [i \in 1..Len(items) |-> ManifestEntryOf(items[i], PathOf(items[i]), 1, 0)]]

StoredKeySets == (SUBSET Positions) \ {{}}

NoStats == [total |-> 0, downloaded |-> 0, skipped |-> 0, failed |-> 0,
            images |-> 0, videos |-> 0]
NoCounts == [i \in Positions |-> 0]
NoResult == [pos |-> 0, res |-> "none"]
NoResults == [i \in Positions |-> NoResult]
NoOutcomes == [i \in Positions |-> "none"]
IdleWorkers == [w \in Workers |-> "idle"]
NoWorkerItems == [w \in Workers |-> 0]
NoWorkerTexts == [w \in Workers |-> NoText]

RunIdle ==
  /\ phase = "boot" /\ runNo = 0 /\ pending = <<>> /\ queue = <<>> /\ launched = 0
  /\ wpc = IdleWorkers /\ wItem = NoWorkerItems /\ wSnap = NoWorkerTexts
  /\ stats = NoStats /\ aborted = FALSE /\ results = NoResults /\ output = <<>>
  /\ popCount = NoCounts /\ procCount = NoCounts /\ fetchCount = NoCounts
  /\ mediaWrites = 0 /\ anyFailure = FALSE /\ outcome = NoOutcomes /\ returned = {}
  /\ loadedKeys = {} /\ prevEnd = "none" /\ prevReturned = {}

\* the bundle descriptor URLs of an export carry the time the export was made
ExportAges == {URL_EXPIRATION_HOURS - 1, URL_EXPIRATION_HOURS + 1}

\* results = new Map(), completed = 0, no call of onProgress yet
NoHook == [keys |-> <<>>, completed |-> 0, calls |-> <<>>]

OrchIdle ==
  /\ mode = "none" /\ catalog = <<>> /\ concurrency = 1
  /\ hook = NoHook
  /\ skipExisting = FALSE /\ skipOverlay = FALSE /\ delayPositive = FALSE
  /\ exportAgeHours = URL_EXPIRATION_HOURS - 1
  /\ files = {} /\ diskAtStart = [d \in Dirs |-> AbsentFile]
  /\ RunIdle

\* the state in which an orchestrator is entered with one of the given catalogs
RunInit(catalogs) ==
  /\ catalog \in catalogs
  /\ hook = NoHook
  /\ concurrency \in 1..MaxConcurrency
  /\ man = NoManifest
  /\ clock = 0
  /\ \/ /\ mode \in {"cli", "dry"}
        /\ skipExisting \in BOOLEAN
        /\ skipOverlay \in BOOLEAN
        /\ exportAgeHours \in ExportAges
        \* the age is not looked at when overlays are skipped by option
        /\ skipOverlay => exportAgeHours = URL_EXPIRATION_HOURS - 1
        /\ delayPositive = TRUE
        /\ \/ disk = [d \in Dirs |-> AbsentFile] /\ files = {}
           \/ \E keys \in StoredKeySets :
                /\ disk = [d \in Dirs |->
                            IF d = OutDir
                            THEN WriteAt0(EmptyFile, JSONStringify(StoredManifest(keys)))
                            ELSE AbsentFile]
                /\ files = {PathOf(ItemAt(i)) : i \in keys}
     \/ /\ mode = "batch"
        /\ skipExisting = FALSE
        /\ skipOverlay = FALSE
        /\ exportAgeHours = URL_EXPIRATION_HOURS - 1
        /\ delayPositive \in BOOLEAN
        /\ disk = [d \in Dirs |-> AbsentFile]
        /\ files = {}
  /\ diskAtStart = disk
  /\ RunIdle

OrchInit == RunInit(Catalogs)

\* mutant: as many workers as configured, whatever the number of items
ActualConcurrency_configured(configured, count) == configured

\* actualConcurrency = Math.min(concurrency, memories.length)
ActualConcurrency(configured, count) == Min(configured, count)

\* mutant: the pop takes two elements off the queue
Shift_dropsTwo(q) == IF Len(q) >= 2 THEN Tail(Tail(q)) ELSE Tail(q)

\* the queue after queue.shift()
Shift(q) == Tail(q)

\* the mediaDownloadUrl of an export issued ageHours before now
MediaDownloadUrl(ageHours) ==
  [parses |-> TRUE, ts |-> Some(ToDigits(NowMs - ageHours * MsPerHour))]

\* checkUrlExpiration(firstWithOverlay.mediaDownloadUrl), by the age of the export
FirstUrlExpiration ==
  [h \in ExportAges |->
     checkUrlExpiration(MediaDownloadUrl(h), URL_EXPIRATION_HOURS, NowMs)]

\* checkOverlayUrlsExpired(memories): the first memory with a mediaDownloadUrl
checkOverlayUrlsExpired(memories) ==
  LET HasUrl(m) == m.mediaDownloadUrl
      withOverlay == SelectSeq(memories, HasUrl)
  IN IF withOverlay = <<>> THEN Null
     ELSE Some(FirstUrlExpiration[exportAgeHours])

effectiveSkipOverlay_optionOnly == skipOverlay

\* runExport: options.skipOverlay, or the overlay URLs found expired
effectiveSkipOverlay ==
  \/ skipOverlay
  \/ LET expirationInfo == checkOverlayUrlsExpired(catalog)
     IN expirationInfo # Null /\ expirationInfo[1].isExpired

\* the first await of processMemory for an item: the bundle fetch when the item
\* has a bundle descriptor and overlays are not skipped, else the plain fetch
FirstStage(memory) ==
  IF mode = "cli" /\ memory.mediaDownloadUrl /\ ~effectiveSkipOverlay
  THEN "ofetch" ELSE "fetch"

\* mutant: a worker does not look at the cancellation signal
LoopHead_ignoresSignal(q) ==
  IF q = <<>>
  THEN [pc |-> "done", item |-> 0, queue |-> q]
  ELSE [pc |-> FirstStage(pending[Head(q)]), item |-> Head(q), queue |-> Shift(q)]

\* one evaluation of the worker's loop head, up to its first await:
\* while (queue.length > 0) { [if (signal.aborted) break;] memory = queue.shift(); ...
LoopHead(q) ==
  IF q = <<>> \/ (mode = "batch" /\ aborted)
  THEN [pc |-> "done", item |-> 0, queue |-> q]
  ELSE [pc |-> FirstStage(pending[Head(q)]), item |-> Head(q), queue |-> Shift(q)]

Bump(f, i) == IF i = 0 THEN f ELSE [f EXCEPT ![i] = @ + 1]
IdAt(pos) == IF pos = 0 THEN 0 ELSE pending[pos].mediaId

\* the worker w goes through the loop head
EnterLoop(w) ==
  LET n == LoopHead(queue)
  IN /\ wpc' = [wpc EXCEPT ![w] = n.pc]
     /\ wItem' = [wItem EXCEPT ![w] = n.item]
     /\ queue' = n.queue
     /\ popCount' = Bump(popCount, n.item)
     /\ fetchCount' = Bump(fetchCount, IdAt(n.item))

\* runExport up to the call of downloadWithProgress: load the manifest, filter
\* the pending items, return when there is none
StartRunCli ==
  /\ mode = "cli"
  /\ \/ phase = "boot"
     \/ phase \in {"completed", "nothing", "loadfail", "crashed"} /\ runNo < MaxRuns
  /\ LET r == loadManifest(disk[OutDir], OutDir, clock)
         pend == filterPendingMemories(catalog, r.manifest)
     IN /\ man' = r.manifest
        /\ loadedKeys' = getDownloadedIds(r.manifest)
        /\ pending' = IF r.ok THEN pend ELSE <<>>
        /\ queue' = IF r.ok THEN [i \in 1..Len(pend) |-> i] ELSE <<>>
        /\ phase' = IF ~r.ok THEN "loadfail"
                    ELSE IF Len(pend) = 0 THEN "nothing" ELSE "running"
        /\ stats' = [NoStats EXCEPT !.total = IF r.ok THEN Len(pend) ELSE 0]
  /\ runNo' = runNo + 1
  /\ prevEnd' = phase
  /\ prevReturned' = returned
  /\ diskAtStart' = disk
  /\ launched' = 0
  /\ wpc' = IdleWorkers /\ wItem' = NoWorkerItems /\ wSnap' = NoWorkerTexts
  /\ popCount' = NoCounts /\ procCount' = NoCounts /\ fetchCount' = NoCounts
  /\ mediaWrites' = 0 /\ anyFailure' = FALSE /\ outcome' = NoOutcomes
  /\ UNCHANGED <<disk, files, aborted, results, output, returned>>
  /\ OrchFrame

DryRun_loadsManifest ==
  /\ mode = "dry"
  /\ phase = "boot"
  /\ phase' = "listed"
  /\ runNo' = runNo + 1
  /\ man' = loadManifest(disk[OutDir], OutDir, clock).manifest
  /\ UNCHANGED <<disk, pending, queue, launched, wpc, wItem, wSnap, stats, files,
                 aborted, results, output, histVars>>
  /\ OrchFrame

\* runExport with options.dryRun (the CLI's --dry-run): the memories are listed
\* and the function returns before ensureDir and loadManifest
DryRun ==
  /\ mode = "dry"
  /\ phase = "boot"
  /\ phase' = "listed"
  /\ runNo' = runNo + 1
  /\ UNCHANGED <<man, disk, pending, queue, launched, wpc, wItem, wSnap, stats, files,
                 aborted, results, output, histVars>>
  /\ OrchFrame

\* downloadMemoriesConcurrent up to its first await: queue = [...memories]
StartRunBatch ==
  /\ mode = "batch"
  /\ phase = "boot"
  /\ phase' = "running"
  /\ runNo' = runNo + 1
  /\ pending' = catalog
  /\ queue' = [i \in 1..Len(catalog) |-> i]
  /\ UNCHANGED <<man, disk, launched, wpc, wItem, wSnap, stats, files, aborted, results,
                 output, histVars>>
  /\ OrchFrame

\* the start loop, one iteration: (the stagger sleep is over,) workers.push(worker())
\* runs the new worker up to its first await
Launch ==
  /\ phase = "running"
  /\ launched < ActualConcurrency(concurrency, Len(pending))
  /\ launched' = launched + 1
  /\ EnterLoop(launched + 1)
  /\ UNCHANGED <<man, disk, phase, runNo, pending, wSnap, stats, files, aborted, results,
                 output, procCount, mediaWrites, anyFailure, outcome, returned, loadedKeys,
                 diskAtStart, prevEnd, prevReturned>>
  /\ OrchFrame

AfterItem_hangs(w) ==
  /\ procCount' = Bump(procCount, wItem[w])
  /\ wpc' = [wpc EXCEPT ![w] = IF queue # <<>> THEN "sleep" ELSE "hung"]
  /\ wItem' = [wItem EXCEPT ![w] = 0]

\* processMemory is over for worker w: progressBar.increment(), then the rate
\* limiting sleep when the queue is not empty, else the loop head (which ends
\* the worker, the queue being empty)
AfterItem(w) ==
  /\ procCount' = Bump(procCount, wItem[w])
  /\ wpc' = [wpc EXCEPT ![w] = IF queue # <<>> THEN "sleep" ELSE "done"]
  /\ wItem' = [wItem EXCEPT ![w] = 0]

\* the bundle fetch (downloadMediaWithOverlay) succeeded; compositing gives the
\* media to save (the base media when compositing fails)
OverlayFetchOk(w) ==
  /\ phase = "running" /\ wpc[w] = "ofetch"
  /\ wpc' = [wpc EXCEPT ![w] = "save"]
  /\ \E composited \in BOOLEAN : anyFailure' = (anyFailure \/ ~composited)
  /\ UNCHANGED <<man, disk, phase, runNo, pending, queue, launched, wItem, wSnap, stats,
                 files, aborted, results, output, popCount, procCount, fetchCount,
                 mediaWrites, outcome, returned, loadedKeys, diskAtStart, prevEnd,
                 prevReturned>>
  /\ OrchFrame

\* the bundle fetch threw: fall back to downloadMemory
OverlayFetchFail(w) ==
  /\ phase = "running" /\ wpc[w] = "ofetch"
  /\ wpc' = [wpc EXCEPT ![w] = "fetch"]
  /\ fetchCount' = Bump(fetchCount, IdAt(wItem[w]))
  /\ anyFailure' = TRUE
  /\ UNCHANGED <<man, disk, phase, runNo, pending, queue, launched, wItem, wSnap, stats,
                 files, aborted, results, output, popCount, procCount, mediaWrites,
                 outcome, returned, loadedKeys, diskAtStart, prevEnd, prevReturned>>
  /\ OrchFrame

\* downloadMemory returned the media: saveMemory is called
FetchOk(w) ==
  /\ mode = "cli" /\ phase = "running" /\ wpc[w] = "fetch"
  /\ wpc' = [wpc EXCEPT ![w] = "save"]
  /\ UNCHANGED <<man, disk, phase, runNo, pending, queue, launched, wItem, wSnap, stats,
                 files, aborted, results, output, histVars>>
  /\ OrchFrame

\* mutant: the failure leaves the worker loop, the worker ends uncounted
FetchFail_escapes(w) ==
  /\ mode = "cli" /\ phase = "running" /\ wpc[w] = "fetch"
  /\ anyFailure' = TRUE
  /\ wpc' = [wpc EXCEPT ![w] = "done"]
  /\ wItem' = [wItem EXCEPT ![w] = 0]
  /\ UNCHANGED <<man, disk, phase, runNo, pending, queue, launched, wSnap, stats, files,
                 aborted, results, output, popCount, procCount, fetchCount, mediaWrites,
                 outcome, returned, loadedKeys, diskAtStart, prevEnd, prevReturned>>
  /\ OrchFrame

\* downloadMemory threw: the outer catch counts the failure
FetchFail(w) ==
  /\ mode = "cli" /\ phase = "running" /\ wpc[w] = "fetch"
  /\ stats' = [stats EXCEPT !.failed = @ + 1]
  /\ anyFailure' = TRUE
  /\ outcome' = [outcome EXCEPT ![wItem[w]] = "fetchFailed"]
  /\ AfterItem(w)
  /\ UNCHANGED <<man, disk, phase, runNo, pending, queue, launched, wSnap, files, aborted,
                 results, output, popCount, fetchCount, mediaWrites, returned,
                 loadedKeys, diskAtStart, prevEnd, prevReturned>>
  /\ OrchFrame

SaveCheck_countsFailure(w) ==
  /\ phase = "running" /\ wpc[w] = "save"
  /\ IF skipExisting /\ PathOf(pending[wItem[w]]) \in files
     THEN /\ stats' = [stats EXCEPT !.failed = @ + 1]
          /\ outcome' = [outcome EXCEPT ![wItem[w]] = "skipped"]
          /\ AfterItem(w)
     ELSE /\ wpc' = [wpc EXCEPT ![w] = "write"]
          /\ UNCHANGED <<stats, wItem, procCount, outcome>>
  /\ UNCHANGED <<man, disk, phase, runNo, pending, queue, launched, wSnap, files, aborted,
                 results, output, popCount, fetchCount, mediaWrites, anyFailure, returned,
                 loadedKeys, diskAtStart, prevEnd, prevReturned>>
  /\ OrchFrame

\* saveMemory, first part: with skipExisting an existing target is thrown as
\* 'File already exists' (counted as skipped); else the write is started
SaveCheck(w) ==
  /\ phase = "running" /\ wpc[w] = "save"
  /\ IF skipExisting /\ PathOf(pending[wItem[w]]) \in files
     THEN /\ stats' = [stats EXCEPT !.skipped = @ + 1]
          /\ outcome' = [outcome EXCEPT ![wItem[w]] = "skipped"]
          /\ AfterItem(w)
     ELSE /\ wpc' = [wpc EXCEPT ![w] = "write"]
          /\ UNCHANGED <<stats, wItem, procCount, outcome>>
  /\ UNCHANGED <<man, disk, phase, runNo, pending, queue, launched, wSnap, files, aborted,
                 results, output, popCount, fetchCount, mediaWrites, anyFailure, returned,
                 loadedKeys, diskAtStart, prevEnd, prevReturned>>
  /\ OrchFrame

\* mutant: a failed write still records the item in the manifest
WriteFail_recordsEntry(w) ==
  /\ phase = "running" /\ wpc[w] = "write"
  /\ stats' = [stats EXCEPT !.failed = @ + 1]
  /\ anyFailure' = TRUE
  /\ outcome' = [outcome EXCEPT ![wItem[w]] = "writeFailed"]
  /\ man' = addManifestEntry(man, pending[wItem[w]], PathOf(pending[wItem[w]]), 1, clock)
  /\ AfterItem(w)
  /\ UNCHANGED <<disk, phase, runNo, pending, queue, launched, wSnap, files, aborted,
                 results, output, popCount, fetchCount, mediaWrites, returned,
                 loadedKeys, diskAtStart, prevEnd, prevReturned>>
  /\ OrchFrame

\* saveMemory threw another error (mkdir or writeFile failed): counted as failed
WriteFail(w) ==
  /\ phase = "running" /\ wpc[w] = "write"
  /\ stats' = [stats EXCEPT !.failed = @ + 1]
  /\ anyFailure' = TRUE
  /\ outcome' = [outcome EXCEPT ![wItem[w]] = "writeFailed"]
  /\ AfterItem(w)
  /\ UNCHANGED <<man, disk, phase, runNo, pending, queue, launched, wSnap, files, aborted,
                 results, output, popCount, fetchCount, mediaWrites, returned,
                 loadedKeys, diskAtStart, prevEnd, prevReturned>>
  /\ OrchFrame

\* saveMemory returned the path: count the download, addManifestEntry, and
\* saveManifest up to its await: restamp, stringify, call writeFile
WriteDone(w) ==
  /\ phase = "running" /\ wpc[w] = "write"
  /\ LET memory == pending[wItem[w]]
         m2 == Restamp(addManifestEntry(man, memory, PathOf(memory), 1, clock), clock)
     IN /\ files' = files \cup {PathOf(memory)}
        /\ stats' = [stats EXCEPT
                       !.downloaded = @ + 1,
                       !.images = IF memory.mediaType = "Image" THEN @ + 1 ELSE @,
                       !.videos = IF memory.mediaType = "Image" THEN @ ELSE @ + 1]
        /\ man' = m2
        /\ wSnap' = [wSnap EXCEPT ![w] = JSONStringify(m2)]
  /\ mediaWrites' = mediaWrites + 1
  /\ outcome' = [outcome EXCEPT ![wItem[w]] = "recorded"]
  /\ wpc' = [wpc EXCEPT ![w] = "mopen"]
  /\ UNCHANGED <<disk, phase, runNo, pending, queue, launched, wItem, aborted, results,
                 output, popCount, procCount, fetchCount, anyFailure, returned,
                 loadedKeys, diskAtStart, prevEnd, prevReturned>>
  /\ OrchFrame

\* writeFile of the manifest, first half: the file is opened with flag 'w'
ManifestOpen(w) ==
  /\ phase = "running" /\ wpc[w] = "mopen"
  /\ disk' = [disk EXCEPT ![man.outputDir] = OpenTruncate(@)]
  /\ wpc' = [wpc EXCEPT ![w] = "mwrite"]
  /\ UNCHANGED <<man, phase, runNo, pending, queue, launched, wItem, wSnap, stats, files,
                 aborted, results, output, histVars>>
  /\ OrchFrame

\* writeFile of the manifest rejected: the inner catch counts a failure
ManifestOpenFail(w) ==
  /\ phase = "running" /\ wpc[w] = "mopen"
  /\ stats' = [stats EXCEPT !.failed = @ + 1]
  /\ anyFailure' = TRUE
  /\ outcome' = [outcome EXCEPT ![wItem[w]] = "saveFailed"]
  /\ wSnap' = [wSnap EXCEPT ![w] = NoText]
  /\ AfterItem(w)
  /\ UNCHANGED <<man, disk, phase, runNo, pending, queue, launched, files, aborted,
                 results, output, popCount, fetchCount, mediaWrites, returned,
                 loadedKeys, diskAtStart, prevEnd, prevReturned>>
  /\ OrchFrame

\* writeFile of the manifest, second half: the text is written at offset 0 and
\* the file closed; saveManifest returns
ManifestWrite(w) ==
  /\ phase = "running" /\ wpc[w] = "mwrite"
  /\ disk' = [disk EXCEPT ![man.outputDir] = WriteAt0(@, wSnap[w])]
  /\ wSnap' = [wSnap EXCEPT ![w] = NoText]
  /\ returned' = returned \cup {IdAt(wItem[w])}
  /\ outcome' = [outcome EXCEPT ![wItem[w]] = "downloaded"]
  /\ AfterItem(w)
  /\ UNCHANGED <<man, phase, runNo, pending, queue, launched, stats, files, aborted,
                 results, output, popCount, fetchCount, mediaWrites, anyFailure,
                 loadedKeys, diskAtStart, prevEnd, prevReturned>>
  /\ OrchFrame

\* the key order of a Map after set(key, ...): a new key goes last, a key already
\* there keeps its place
MapSet(keys, key) ==
  IF \E k \in 1..Len(keys) : keys[k] = key THEN keys ELSE Append(keys, key)

\* mutant: the hook is given the first value of the Map
onComplete_reportsFirst(h, stored, just) ==
  [h EXCEPT !.completed = @ + 1,
            !.calls = Append(@, [completedCount |-> h.completed + 1,
                                 totalCount |-> Len(catalog),
                                 item |-> stored[h.keys[1]].pos,
                                 recorded |-> just])]

\* onComplete with a progress hook installed: completed++, and (results.size
\* being positive) onProgress(completed, memories.length, lastResult.memory),
\* lastResult = Array.from(results.values()).pop().  h.keys is the key order of
\* results, stored its values; just is the item the calling worker has just
\* stored a result for (observation only)
onComplete(h, stored, just) ==
  [h EXCEPT !.completed = @ + 1,
            !.calls = Append(@, [completedCount |-> h.completed + 1,
                                 totalCount |-> Len(catalog),
                                 item |-> stored[h.keys[Len(h.keys)]].pos,
                                 recorded |-> just])]

\* downloadWorker: downloadMemory settled for worker w.  The result is stored,
\* onComplete runs, and the worker sleeps (queue not empty and delay > 0) or goes
\* straight through the loop head again
BatchFetchDone(w) ==
  /\ mode = "batch" /\ phase = "running" /\ wpc[w] = "fetch"
  /\ \E ok \in BOOLEAN :
       /\ results' = [results EXCEPT ![IdAt(wItem[w])] =
                        [pos |-> wItem[w], res |-> IF ok THEN "success" ELSE "failed"]]
       /\ anyFailure' = (anyFailure \/ ~ok)
       /\ outcome' = [outcome EXCEPT ![wItem[w]] =
                        IF ok THEN "downloaded" ELSE "fetchFailed"]
  /\ hook' = onComplete([hook EXCEPT !.keys = MapSet(@, IdAt(wItem[w]))], results',
                        wItem[w])
  /\ procCount' = Bump(procCount, wItem[w])
  /\ IF queue # <<>> /\ delayPositive
     THEN /\ wpc' = [wpc EXCEPT ![w] = "sleep"]
          /\ wItem' = [wItem EXCEPT ![w] = 0]
          /\ UNCHANGED <<queue, popCount, fetchCount>>
     ELSE EnterLoop(w)
  /\ UNCHANGED <<man, disk, phase, runNo, pending, launched, wSnap, stats, files, aborted,
                 output, mediaWrites, returned, loadedKeys, diskAtStart, prevEnd,
                 prevReturned>>
  /\ BatchFrame

\* the rate limiting sleep of worker w is over: back to the loop head
Wake(w) ==
  /\ phase = "running" /\ wpc[w] = "sleep"
  /\ EnterLoop(w)
  /\ UNCHANGED <<man, disk, phase, runNo, pending, launched, wSnap, stats, files, aborted,
                 results, output, procCount, mediaWrites, anyFailure, outcome, returned,
                 loadedKeys, diskAtStart, prevEnd, prevReturned>>
  /\ OrchFrame

\* the cancellation signal is raised
Abort ==
  /\ mode = "batch" /\ phase = "running" /\ ~aborted
  /\ aborted' = TRUE
  /\ UNCHANGED <<man, disk, phase, runNo, pending, queue, launched, wpc, wItem, wSnap,
                 stats, files, results, output, histVars>>
  /\ OrchFrame

\* mutant: the results come back in reverse input order
Complete_reversed ==
  /\ phase = "running"
  /\ launched = ActualConcurrency(concurrency, Len(pending))
  /\ \A w \in Workers : wpc[w] \in {"idle", "done"}
  /\ phase' = "completed"
  /\ output' = IF mode = "batch"
               THEN [i \in 1..Len(catalog) |->
                       LET k == Len(catalog) + 1 - i
                       IN IF results[catalog[k].mediaId] # NoResult
                          THEN results[catalog[k].mediaId]
                          ELSE [pos |-> k, res |-> "cancelled"]]
               ELSE output
  /\ UNCHANGED <<man, disk, runNo, pending, queue, launched, wpc, wItem, wSnap, stats,
                 files, aborted, results, histVars>>
  /\ OrchFrame

\* await Promise.all(workers) settles: every worker was started and has ended.
\* downloadMemoriesConcurrent maps the input to the stored results
Complete ==
  /\ phase = "running"
  /\ launched = ActualConcurrency(concurrency, Len(pending))
  /\ \A w \in Workers : wpc[w] \in {"idle", "done"}
  /\ phase' = "completed"
  /\ output' = IF mode = "batch"
               THEN [i \in 1..Len(catalog) |->
                       IF results[catalog[i].mediaId] # NoResult
                       THEN results[catalog[i].mediaId]
                       ELSE [pos |-> i, res |-> "cancelled"]]
               ELSE output
  /\ UNCHANGED <<man, disk, runNo, pending, queue, launched, wpc, wItem, wSnap, stats,
                 files, aborted, results, histVars>>
  /\ OrchFrame

\* the process is interrupted (SIGINT, kill, power loss): everything in memory is
\* gone, the files stay as they are
Crash ==
  /\ mode = "cli" /\ phase = "running" /\ runNo < MaxRuns
  /\ phase' = "crashed"
  /\ queue' = <<>> /\ launched' = 0
  /\ wpc' = IdleWorkers /\ wItem' = NoWorkerItems /\ wSnap' = NoWorkerTexts
  /\ UNCHANGED <<man, disk, runNo, pending, stats, files, aborted, results, output,
                 histVars>>
  /\ OrchFrame

----------------------------------------------------------------------------
\* loadManifest called once on a destination that holds any kind of manifest
\* file: none, an empty or garbled one, or the text of a manifest of some version.
Versions == {0, MANIFEST_VERSION, MANIFEST_VERSION + 1}
StoredTexts ==
  {[JSONStringify(StoredManifest(keys)) EXCEPT !.version = v] :
     keys \in SUBSET Positions, v \in Versions}
StoredFiles ==
  {AbsentFile, EmptyFile, [st |-> "garbled", text |-> NoText, len |-> 1]}
    \cup {[st |-> "json", text |-> t, len |-> TextLen(t)] : t \in StoredTexts}

NotLoaded == [done |-> FALSE, dir |-> "", ok |-> FALSE, manifest |-> NoManifest,
              saved |-> FALSE, target |-> ""]
LoadIdle == lResult = NotLoaded

LoadInit ==
  /\ man = NoManifest
  /\ disk \in [Dirs -> StoredFiles]
  /\ clock \in 0..MaxClock
  /\ lResult = NotLoaded

\* manifest = await loadManifest(d): the file is read, never written
LoadCall(d) ==
  /\ ~lResult.done
  /\ LET r == loadManifest(disk[d], d, clock)
     IN /\ lResult' = [done |-> TRUE, dir |-> d, ok |-> r.ok, manifest |-> r.manifest,
                       saved |-> FALSE, target |-> ""]
        /\ man' = IF r.ok THEN r.manifest ELSE man
  /\ UNCHANGED <<disk, clock>>
  /\ LoadFrame

\* getManifestPath(outputDir): the manifest file under outputDir; the disk is
\* indexed by directory, so the path is named by its directory
getManifestPath(outputDir) == outputDir

\* await saveManifest(manifest) on the manifest the load returned: the path is
\* taken from manifest.outputDir, the manifest is restamped, stringified and
\* written there.  target is the directory whose manifest file was written
LoadSave ==
  /\ lResult.done /\ lResult.ok /\ ~lResult.saved
  /\ man' = Restamp(man, clock)
  /\ disk' = [disk EXCEPT ![getManifestPath(man.outputDir)] =
                WriteAt0(OpenTruncate(@), JSONStringify(man'))]
  /\ lResult' = [lResult EXCEPT !.saved = TRUE,
                                !.target = getManifestPath(man.outputDir)]
  /\ UNCHANGED clock
  /\ LoadFrame

----------------------------------------------------------------------------
\* processMemory (cli.ts) on one item, alone: each attempt of a fetch, the
\* compositing, the existence check, the write, the tagging and the manifest
\* save are steps of their own, and each of them can fail.

\* the errors an attempt of downloadMemory / downloadMediaWithOverlay can end with
AttemptErrors ==
  {DownloadError(404), DownloadError(503), DownloadError(0),
   OtherError("fetch failed"), OtherError("timeout")}

NoItemStats == [downloaded |-> 0, skipped |-> 0, failed |-> 0, images |-> 0,
                videos |-> 0, retries |-> 0]

ItemConfigs ==
  [mediaDownloadUrl : BOOLEAN, mediaType : MediaTypes, skipOverlay : BOOLEAN,
   skipExisting : BOOLEAN, maxRetries : 0..MaxRetriesBound, exists : BOOLEAN]

ItemInit ==
  /\ pCfg \in ItemConfigs
  /\ pPc = "start"
  /\ pAttempt = 0 /\ pPosts = 0 /\ pEvents = {} /\ pStats = NoItemStats
  /\ pWritten = FALSE /\ pEntry = FALSE

ItemIdle ==
  /\ pCfg = [mediaDownloadUrl |-> FALSE, mediaType |-> "Image", skipOverlay |-> FALSE,
             skipExisting |-> FALSE, maxRetries |-> 0, exists |-> FALSE]
  /\ pPc = "idle"
  /\ pAttempt = 0 /\ pPosts = 0 /\ pEvents = {} /\ pStats = NoItemStats
  /\ pWritten = FALSE /\ pEntry = FALSE

\* if (memory.mediaDownloadUrl && !options.skipOverlay) ... else ...
ItemBegin ==
  /\ pPc = "start"
  /\ pPc' = IF pCfg.mediaDownloadUrl /\ ~pCfg.skipOverlay THEN "ofetch" ELSE "fetch"
  /\ UNCHANGED <<pCfg, pAttempt, pPosts, pEvents, pStats, pWritten, pEntry>>
  /\ ItemFrame

\* mutant: a bundle fetch thrown reaches the outer catch, there is no fallback
ItemAttempt_noFallback ==
  /\ pPc \in {"ofetch", "fetch"}
  /\ pPosts' = pPosts + 1
  /\ \/ /\ pPc' = IF pPc = "ofetch" THEN "composite" ELSE "save"
        /\ UNCHANGED <<pAttempt, pEvents, pStats>>
     \/ \E error \in AttemptErrors :
          IF ShouldRetry(pAttempt, pCfg.maxRetries, error)
          THEN /\ pAttempt' = pAttempt + 1
               /\ pStats' = [pStats EXCEPT !.retries = @ + 1]
               /\ UNCHANGED <<pPc, pEvents>>
          ELSE /\ pPc' = "end"
               /\ pStats' = [pStats EXCEPT !.failed = @ + 1]
               /\ pEvents' = pEvents \cup
                    {IF pPc = "ofetch" THEN "overlayFetchFailed" ELSE "fetchFailed"}
               /\ UNCHANGED pAttempt
  /\ UNCHANGED <<pCfg, pWritten, pEntry>>
  /\ ItemFrame

\* one iteration of the for loop of the fetch in progress: one POST, then the
\* media (or an error); an error is retried (onRetry, sleep) or thrown.  The
\* bundle fetch thrown falls back to downloadMemory, downloadMemory thrown
\* reaches the outer catch.
ItemAttempt ==
  /\ pPc \in {"ofetch", "fetch"}
  /\ pPosts' = pPosts + 1
  /\ \/ /\ pPc' = IF pPc = "ofetch" THEN "composite" ELSE "save"
        /\ UNCHANGED <<pAttempt, pEvents, pStats>>
     \/ \E error \in AttemptErrors :
          IF ShouldRetry(pAttempt, pCfg.maxRetries, error)
          THEN /\ pAttempt' = pAttempt + 1
               /\ pStats' = [pStats EXCEPT !.retries = @ + 1]
               /\ UNCHANGED <<pPc, pEvents>>
          ELSE IF pPc = "ofetch"
          THEN /\ pPc' = "fetch"
               /\ pAttempt' = 0
               /\ pEvents' = pEvents \cup {"overlayFetchFailed"}
               /\ UNCHANGED pStats
          ELSE /\ pPc' = "end"
               /\ pStats' = [pStats EXCEPT !.failed = @ + 1]
               /\ pEvents' = pEvents \cup {"fetchFailed"}
               /\ UNCHANGED pAttempt
  /\ UNCHANGED <<pCfg, pWritten, pEntry>>
  /\ ItemFrame

ItemComposite_fatal ==
  /\ pPc = "composite"
  /\ \/ /\ pPc' = "save"
        /\ UNCHANGED <<pEvents, pStats>>
     \/ /\ pPc' = "end"
        /\ pEvents' = pEvents \cup {"compositeFailed"}
        /\ pStats' = [pStats EXCEPT !.failed = @ + 1]
  /\ UNCHANGED <<pCfg, pAttempt, pPosts, pWritten, pEntry>>
  /\ ItemFrame

\* compositeMedia returned, or threw and the base media is used
ItemComposite ==
  /\ pPc = "composite"
  /\ pPc' = "save"
  /\ \/ UNCHANGED pEvents
     \/ pEvents' = pEvents \cup {"compositeFailed"}
  /\ UNCHANGED <<pCfg, pAttempt, pPosts, pStats, pWritten, pEntry>>
  /\ ItemFrame

\* saveMemory: options.skipExisting && (await fileExists(outputPath))
ItemSaveCheck ==
  /\ pPc = "save"
  /\ IF pCfg.skipExisting /\ pCfg.exists
     THEN /\ pPc' = "end"
          /\ pStats' = [pStats EXCEPT !.skipped = @ + 1]
          /\ pEvents' = pEvents \cup {"skipped"}
     ELSE /\ pPc' = "write"
          /\ UNCHANGED <<pStats, pEvents>>
  /\ UNCHANGED <<pCfg, pAttempt, pPosts, pWritten, pEntry>>
  /\ ItemFrame

\* saveMemory: ensureDir and writeFile, which succeed or throw
ItemWrite ==
  /\ pPc = "write"
  /\ \/ /\ pPc' = "tag"
        /\ pWritten' = TRUE
        /\ UNCHANGED <<pStats, pEvents>>
     \/ /\ pPc' = "end"
        /\ pStats' = [pStats EXCEPT !.failed = @ + 1]
        /\ pEvents' = pEvents \cup {"writeFailed"}
        /\ UNCHANGED pWritten
  /\ UNCHANGED <<pCfg, pAttempt, pPosts, pEntry>>
  /\ ItemFrame

\* saveMemory: embedMetadata succeeds or its error is caught; saveMemory returns,
\* the download is counted and addManifestEntry is called
ItemTag ==
  /\ pPc = "tag"
  /\ pPc' = "msave"
  /\ \/ UNCHANGED pEvents
     \/ pEvents' = pEvents \cup {"tagFailed"}
  /\ pStats' = [pStats EXCEPT
                  !.downloaded = @ + 1,
                  !.images = IF pCfg.mediaType = "Image" THEN @ + 1 ELSE @,
                  !.videos = IF pCfg.mediaType = "Image" THEN @ ELSE @ + 1]
  /\ pEntry' = TRUE
  /\ UNCHANGED <<pCfg, pAttempt, pPosts, pWritten>>
  /\ ItemFrame

\* await saveManifest(manifest) returns or throws into the inner catch
ItemManifestSave ==
  /\ pPc = "msave"
  /\ pPc' = "end"
  /\ \/ UNCHANGED <<pStats, pEvents>>
     \/ /\ pStats' = [pStats EXCEPT !.failed = @ + 1]
        /\ pEvents' = pEvents \cup {"manifestSaveFailed"}
  /\ UNCHANGED <<pCfg, pAttempt, pPosts, pWritten, pEntry>>
  /\ ItemFrame

----------------------------------------------------------------------------
\* Pacing of an orchestrator: the start loop and the worker loops against the
\* timers.  Times are in milliseconds; an item stands for its position in the
\* queue, its processing ends at any time.  pace is the state of one run:
\*   kind, delay, concurrency, total     the orchestrator and its options
\*   now                                 the time since the start of the run
\*   left                                queue.length
\*   launched, lpc, ldue                 the start loop: workers started, its
\*                                       position, the due time of its timer
\*   asked                               the sleeps the start loop asked for so
\*                                       far, summed, in 1/actualConcurrency ms
\*   w[i]                                worker i: position, due time of its
\*                                       timer, the sleeps asked before it was
\*                                       started, the time its last item ended,
\*                                       the time from there to its latest pop
Threads == 1..MaxThreads
Delays == 0..MaxDelay
NoTime == 0 - 1

\* setTimeout(resolve, num / den): a delay below 1 is set to 1, a fractional
\* delay is truncated
Timeout(num, den) == IF num < den THEN 1 ELSE num \div den

NotStarted == [pc |-> "idle", due |-> 0, stagger |-> 0, ended |-> NoTime, gap |-> NoTime]

PaceIdle == pace = [kind |-> "none"]

PaceInit ==
  \E kind \in {"cli", "batch"}, delay \in Delays, c \in Threads, total \in 1..MaxQueue :
    pace = [kind |-> kind, delay |-> delay, concurrency |-> c, total |-> total,
            now |-> 0, left |-> total, launched |-> 0, lpc |-> "loop", ldue |-> 0,
            asked |-> 0, w |-> [i \in Threads |-> NotStarted]]

PaceConcurrency == ActualConcurrency(pace.concurrency, pace.total)

\* the worker's loop head at time pace.now: while (queue.length > 0) { queue.shift() ...
PaceLoopHead(worker) ==
  IF pace.left = 0
  THEN [worker EXCEPT !.pc = "done"]
  ELSE [worker EXCEPT !.pc = "busy",
                      !.gap = IF worker.ended = NoTime THEN NoTime
                              ELSE pace.now - worker.ended]
PaceLeftAfter == IF pace.left = 0 THEN 0 ELSE pace.left - 1

\* workers.push(worker()): worker i runs up to its first await
PaceStart(p, i) ==
  [p EXCEPT !.launched = i,
            !.lpc = IF i = PaceConcurrency THEN "wait" ELSE "loop",
            !.left = PaceLeftAfter,
            !.w[i] = PaceLoopHead([NotStarted EXCEPT !.stagger = p.asked])]

\* one iteration of the start loop up to its await.
\* cli:   if (i > 0) await sleep(options.delay / actualConcurrency)
\* batch: await sleep(delay * (i / actualConcurrency))
PaceLaunch ==
  /\ pace.kind # "none" /\ pace.lpc = "loop"
  /\ LET i == pace.launched
         n == PaceConcurrency
     IN IF pace.kind = "cli"
        THEN IF i > 0
             THEN pace' = [pace EXCEPT !.lpc = "sleep",
                                       !.ldue = pace.now + Timeout(pace.delay, n),
                                       !.asked = @ + pace.delay]
             ELSE pace' = PaceStart(pace, i + 1)
        ELSE pace' = [pace EXCEPT !.lpc = "sleep",
                                  !.ldue = pace.now + Timeout(pace.delay * i, n),
                                  !.asked = @ + pace.delay * i]
  /\ PaceFrame

\* the timer of the start loop fired: the next worker is started
PaceLaunchWake ==
  /\ pace.kind # "none" /\ pace.lpc = "sleep"
  /\ pace.now >= pace.ldue
  /\ pace' = PaceStart(pace, pace.launched + 1)
  /\ PaceFrame

\* mutant: the worker sleeps for the stagger share of the delay
PaceFinish_sleepsShare(i) ==
  /\ pace.kind # "none" /\ pace.w[i].pc = "busy"
  /\ LET ended == [pace.w[i] EXCEPT !.ended = pace.now]
     IN IF pace.left > 0 /\ (pace.kind = "cli" \/ pace.delay > 0)
        THEN pace' = [pace EXCEPT
                        !.w[i] = [ended EXCEPT
                                    !.pc = "sleep",
                                    !.due = pace.now + Timeout(pace.delay, PaceConcurrency)]]
        ELSE pace' = [pace EXCEPT !.w[i] = PaceLoopHead(ended), !.left = PaceLeftAfter]
  /\ PaceFrame

\* the item of worker i is over (processMemory returned; downloadMemory settled
\* and onComplete ran).
\* cli:   if (queue.length > 0) await sleep(options.delay)
\* batch: if (queue.length > 0 && delay > 0) await sleep(delay)
\* and without a sleep the loop head follows at once
PaceFinish(i) ==
  /\ pace.kind # "none" /\ pace.w[i].pc = "busy"
  /\ LET ended == [pace.w[i] EXCEPT !.ended = pace.now]
     IN IF pace.left > 0 /\ (pace.kind = "cli" \/ pace.delay > 0)
        THEN pace' = [pace EXCEPT
                        !.w[i] = [ended EXCEPT
                                    !.pc = "sleep",
                                    !.due = pace.now + Timeout(pace.delay, 1)]]
        ELSE pace' = [pace EXCEPT !.w[i] = PaceLoopHead(ended), !.left = PaceLeftAfter]
  /\ PaceFrame

\* the timer of worker i fired: back to the loop head
PaceWake(i) ==
  /\ pace.kind # "none" /\ pace.w[i].pc = "sleep"
  /\ pace.now >= pace.w[i].due
  /\ pace' = [pace EXCEPT !.w[i] = PaceLoopHead(pace.w[i]), !.left = PaceLeftAfter]
  /\ PaceFrame

\* a millisecond passes
PaceTick ==
  /\ pace.kind # "none"
  /\ pace.now < MaxTime
  /\ pace' = [pace EXCEPT !.now = @ + 1]
  /\ PaceFrame

----------------------------------------------------------------------------
SpecBackoffInit == BackoffInit /\ FetchIdle /\ StoreIdle /\ ApiIdle /\ OrchIdle /\ ZipIdle /\ ExpiryIdle /\ LoadIdle /\ ItemIdle /\ PaceIdle
SpecBackoffNext == CalcBackoff
SpecBackoff == SpecBackoffInit /\ [][SpecBackoffNext]_vars

SpecFetchInit == FetchInit /\ BackoffIdle /\ StoreIdle /\ ApiIdle /\ OrchIdle /\ ZipIdle /\ ExpiryIdle /\ LoadIdle /\ ItemIdle /\ PaceIdle
SpecFetchNext == FetchStart \/ FetchPost \/ FetchGet \/ FetchWake
SpecFetch == SpecFetchInit /\ [][SpecFetchNext]_vars

SpecFilterInit == FilterInit /\ BackoffIdle /\ FetchIdle /\ OrchIdle /\ ZipIdle /\ ExpiryIdle /\ LoadIdle /\ ItemIdle /\ PaceIdle
SpecFilterNext == ApiFilter \/ ApiFilterAgain \/ ApiAddEntry
SpecFilter == SpecFilterInit /\ [][SpecFilterNext]_vars

SpecManifestInit == ManifestInit /\ BackoffIdle /\ FetchIdle /\ OrchIdle /\ ZipIdle /\ ExpiryIdle /\ LoadIdle /\ ItemIdle /\ PaceIdle
SpecManifestNext == Tick \/ ApiCreate \/ ApiRecord \/ ApiSave \/ ApiLoad
SpecManifest == SpecManifestInit /\ [][SpecManifestNext]_vars

SpecZipInit == ZipInit /\ BackoffIdle /\ FetchIdle /\ StoreIdle /\ ApiIdle /\ OrchIdle /\ ExpiryIdle /\ LoadIdle /\ ItemIdle /\ PaceIdle
SpecZipNext == ZipExtract
SpecZip == SpecZipInit /\ [][SpecZipNext]_vars

SpecExpiryInit ==
  ExpiryInit /\ BackoffIdle /\ FetchIdle /\ StoreIdle /\ ApiIdle /\ OrchIdle /\ ZipIdle /\ LoadIdle /\ ItemIdle /\ PaceIdle
SpecExpiryNext == CheckExpiry
SpecExpiry == SpecExpiryInit /\ [][SpecExpiryNext]_vars

SpecLoadInit ==
  LoadInit /\ BackoffIdle /\ FetchIdle /\ ApiIdle /\ OrchIdle /\ ZipIdle /\ ExpiryIdle
    /\ ItemIdle /\ PaceIdle
SpecLoadNext == \E d \in Dirs : LoadCall(d)
SpecLoad == SpecLoadInit /\ [][SpecLoadNext]_vars

SpecResaveNext == (\E d \in Dirs : LoadCall(d)) \/ LoadSave
SpecResave == SpecLoadInit /\ [][SpecResaveNext]_vars

SpecItemInit ==
  /\ ItemInit /\ BackoffIdle /\ FetchIdle /\ StoreIdle /\ ApiIdle /\ OrchIdle /\ ZipIdle
  /\ ExpiryIdle /\ LoadIdle /\ PaceIdle
SpecItemNext ==
  \/ ItemBegin
  \/ ItemAttempt
  \/ ItemComposite
  \/ ItemSaveCheck
  \/ ItemWrite
  \/ ItemTag
  \/ ItemManifestSave
SpecItem == SpecItemInit /\ [][SpecItemNext]_vars

SpecPaceInit ==
  /\ PaceInit /\ BackoffIdle /\ FetchIdle /\ StoreIdle /\ ApiIdle /\ OrchIdle /\ ZipIdle
  /\ ExpiryIdle /\ LoadIdle /\ ItemIdle
SpecPaceNext ==
  \/ PaceLaunch
  \/ PaceLaunchWake
  \/ \E i \in Threads : PaceFinish(i)
  \/ \E i \in Threads : PaceWake(i)
  \/ PaceTick
SpecPace == SpecPaceInit /\ [][SpecPaceNext]_vars

Init == OrchInit /\ BackoffIdle /\ FetchIdle /\ ApiIdle /\ ZipIdle /\ ExpiryIdle /\ LoadIdle /\ ItemIdle /\ PaceIdle
Next ==
  \/ StartRunCli
  \/ DryRun
  \/ StartRunBatch
  \/ Launch
  \/ \E w \in Workers : OverlayFetchOk(w)
  \/ \E w \in Workers : OverlayFetchFail(w)
  \/ \E w \in Workers : FetchOk(w)
  \/ \E w \in Workers : FetchFail(w)
  \/ \E w \in Workers : SaveCheck(w)
  \/ \E w \in Workers : WriteFail(w)
  \/ \E w \in Workers : WriteDone(w)
  \/ \E w \in Workers : ManifestOpen(w)
  \/ \E w \in Workers : ManifestOpenFail(w)
  \/ \E w \in Workers : ManifestWrite(w)
  \/ \E w \in Workers : BatchFetchDone(w)
  \/ \E w \in Workers : Wake(w)
  \/ Abort
  \/ Complete
  \/ Crash
Spec == Init /\ [][Next]_vars

\* a run over a catalog that holds twin identities, on an empty destination
TwinInit ==
  /\ RunInit(TwinCatalogs)
  /\ disk = [d \in Dirs |-> AbsentFile]
  /\ BackoffIdle /\ FetchIdle /\ ApiIdle /\ ZipIdle /\ ExpiryIdle /\ LoadIdle
  /\ ItemIdle /\ PaceIdle
SpecTwin == TwinInit /\ [][Next]_vars

\* every started network call, sleep and file operation settles, and the event
\* loop runs what is ready: the steps of a run in progress are taken, a
\* cancellation or an interruption may or may not come
Progress ==
  \/ Launch
  \/ \E w \in Workers : OverlayFetchOk(w)
  \/ \E w \in Workers : OverlayFetchFail(w)
  \/ \E w \in Workers : FetchOk(w)
  \/ \E w \in Workers : FetchFail(w)
  \/ \E w \in Workers : SaveCheck(w)
  \/ \E w \in Workers : WriteFail(w)
  \/ \E w \in Workers : WriteDone(w)
  \/ \E w \in Workers : ManifestOpen(w)
  \/ \E w \in Workers : ManifestOpenFail(w)
  \/ \E w \in Workers : ManifestWrite(w)
  \/ \E w \in Workers : BatchFetchDone(w)
  \/ \E w \in Workers : Wake(w)
  \/ Complete
\* the run whose completion is followed is the first one on its destination
\* root, which may hold what earlier runs left; a dry run downloads nothing
LiveInit == Init /\ mode \in {"cli", "batch"}
LiveNext ==
  \/ runNo = 0 /\ StartRunCli
  \/ runNo = 0 /\ StartRunBatch
  \/ Launch
  \/ \E w \in Workers : OverlayFetchOk(w)
  \/ \E w \in Workers : OverlayFetchFail(w)
  \/ \E w \in Workers : FetchOk(w)
  \/ \E w \in Workers : FetchFail(w)
  \/ \E w \in Workers : SaveCheck(w)
  \/ \E w \in Workers : WriteFail(w)
  \/ \E w \in Workers : WriteDone(w)
  \/ \E w \in Workers : ManifestOpen(w)
  \/ \E w \in Workers : ManifestOpenFail(w)
  \/ \E w \in Workers : ManifestWrite(w)
  \/ \E w \in Workers : BatchFetchDone(w)
  \/ \E w \in Workers : Wake(w)
  \/ Abort
  \/ Complete
  \/ Crash
SpecLive == LiveInit /\ [][LiveNext]_vars /\ WF_vars(Progress)

----------------------------------------------------------------------------
\* Claims

\* ---- C1 (SpecFetch).  Retry ceiling: a fetch (downloadMemory or
\* downloadMediaWithOverlay) of a descriptor with a query payload, all of whose
\* requests were answered with a retryable HTTP status, makes exactly
\* maxRetries + 1 attempts (POST requests), calls onRetry exactly maxRetries
\* times with the attempt numbers 1, 2, ..., maxRetries in this order, and ends
\* failed with the last answer's error; while it runs it never shows success
\* and never exceeds these counts.
AllAnswersRetryable ==
  \A i \in 1..Len(fResponses) :
    fResponses[i].t = "status" /\ fResponses[i].code \in RETRYABLE_STATUS_CODES

C1_RetryCeiling ==
  (fHasQuery /\ AllAnswersRetryable) =>
     /\ fOutcome # "success"
     /\ fPosts <= fMaxRetries + 1
     /\ \A i \in 1..Len(fRetryLog) : fRetryLog[i].attempt = i
     /\ Len(fRetryLog) <= fMaxRetries
     /\ fPc = "done" =>
          /\ fPosts = fMaxRetries + 1
          /\ Len(fRetryLog) = fMaxRetries
          /\ fOutcome = "failed"
          /\ fLastError = DownloadError(fResponses[Len(fResponses)].code)

C1_Witness ==
  /\ fPc = "done" /\ fHasQuery /\ AllAnswersRetryable
  /\ fMaxRetries = 2 /\ fPosts = 3 /\ Len(fRetryLog) = 2
  /\ fKind = "downloadMediaWithOverlay"

CatalogIds == {catalog[i].mediaId : i \in 1..Len(catalog)}
DistinctIds == Cardinality(CatalogIds) = Len(catalog)
ManifestFile == disk[OutDir]
Busy == {"ofetch", "fetch", "save", "write", "mopen", "mwrite"}
InProcess == {w \in Workers : wpc[w] \in Busy}
InQueue(i) == \E k \in 1..Len(queue) : queue[k] = i
Holders(i) == {w \in Workers : wItem[w] = i}

\* C2: a CLI run over N items of which K are keys of the loaded manifest, in
\* which every fetch and every write succeeds (skip-existing off), has fetched
\* exactly the N-K pending items once each, reports downloaded = N-K, and leaves
\* a manifest file with N entries, whatever the concurrency and interleaving.
\* The code breaks this: two workers' unserialized writes of the manifest file
\* leave an older snapshot or an unparsable file.
C2_ResumeFetchesPendingOnceRecordsAll ==
  (/\ mode = "cli" /\ phase = "completed" /\ ~anyFailure /\ ~skipExisting
   /\ DistinctIds /\ loadedKeys \subseteq CatalogIds)
  => /\ \A i \in Positions :
          fetchCount[i] = IF i \in CatalogIds \ loadedKeys THEN 1 ELSE 0
     /\ stats.downloaded = Len(catalog) - Cardinality(loadedKeys)
     /\ ManifestFile.st = "json"
     /\ Len(JSONParse(ManifestFile.text).entries) = Len(catalog)

\* C3: after an interruption at any point of a run the next loadManifest
\* succeeds and its result holds every entry whose saveManifest had returned.
\* The code breaks this: the manifest file is truncated before it is rewritten.
C3_CrashLosesOnlyInFlight ==
  prevEnd = "crashed" => (phase # "loadfail" /\ prevReturned \subseteq loadedKeys)

\* C4: after a first run that downloaded and recorded every catalog item (every
\* saveManifest returned), the second invocation finds nothing pending, fetches
\* nothing, writes no media file and leaves the manifest file as it was.
\* The code breaks this when the first run's manifest writes raced.
C4_SecondInvocationIdempotent ==
  (runNo = 2 /\ prevEnd = "completed" /\ prevReturned = CatalogIds)
  => /\ phase = "nothing"
     /\ fetchCount = NoCounts
     /\ mediaWrites = 0
     /\ disk = diskAtStart

\* C5: with concurrency c and p >= 1 pending items both orchestrators start
\* exactly min(c, p) workers, and never more than min(c, p) items are being
\* processed at once.
C5_StartsMinWorkers ==
  phase \in {"running", "completed"} =>
    /\ launched <= Min(concurrency, Len(pending))
    /\ Cardinality({w \in Workers : wpc[w] # "idle"}) = launched
    /\ Cardinality(InProcess) <= Min(concurrency, Len(pending))
    /\ phase = "completed" => launched = Min(concurrency, Len(pending))

C5_Witness ==
  /\ phase = "completed"
  /\ concurrency = 2 /\ Len(pending) = 1
  /\ launched = 1
  /\ procCount[1] = 1

\* C6: within a run every queued item is popped by exactly one worker and
\* processed exactly once: an item is in the queue, or held by one worker, or
\* processed, never two of these and never none; without cancellation every
\* item of a completed run was popped once and processed once.
C6_EachItemPoppedAndProcessedOnce ==
  phase \in {"running", "completed"} =>
    /\ \A i \in 1..Len(pending) :
         /\ popCount[i] = IF InQueue(i) THEN 0 ELSE 1
         /\ popCount[i] = procCount[i] + Cardinality(Holders(i))
    /\ (phase = "completed" /\ ~aborted) =>
         \A i \in 1..Len(pending) : popCount[i] = 1 /\ procCount[i] = 1

C6_Witness ==
  /\ phase = "completed" /\ ~aborted
  /\ concurrency = 2 /\ launched = 2 /\ Len(pending) = 2
  /\ \A i \in 1..2 : popCount[i] = 1 /\ procCount[i] = 1

\* ---- C7 (SpecFilter).  filterPendingMemories applied to its own result
\* against the same manifest returns that result; and the pending list computed
\* after addManifestEntry for item X is the pending list computed before it,
\* from the same input, with the items of X's identity taken out and nothing
\* else removed, added or reordered.
WithoutId(list, id) ==
  LET Keep(m) == m.mediaId # id IN SelectSeq(list, Keep)

C7_FilterIdempotent_AddRemovesOnlyX ==
  /\ mAgain.valid => mAgain.list = mPending.list
  /\ (mPending.valid /\ mPrev.valid) =>
        mPending.list = WithoutId(mPrev.list, mAdded.mediaId)

C7_Witness ==
  /\ mPending.valid /\ mPrev.valid /\ mAgain.valid
  /\ Len(mPrev.list) = 3 /\ Len(mPending.list) = 1
  /\ mAdded.mediaId # mPending.list[1].mediaId

\* ---- C8 (SpecFilter).  Every call of filterPendingMemories returns exactly
\* the items of the input whose identity is not a key of manifest.entries, in
\* input order (duplicates kept), and changes neither the manifest nor the
\* input list.
PendingOf(list, manifest) ==
  LET keys == {manifest.entries[i].mediaId : i \in 1..Len(manifest.entries)}
      Keep(m) == m.mediaId \notin keys
  IN SelectSeq(list, Keep)

C8_FilterExactSubsequence ==
  [][(mPending'.valid /\ mPending' # mPending) =>
        /\ mPending'.list = PendingOf(mInput, man)
        /\ man' = man
        /\ mInput' = mInput]_vars

C8_Witness ==
  /\ mPending.valid /\ Len(mInput) = 3 /\ Len(mPending.list) = 2
  /\ Len(man.entries) = 1
  /\ mInput[2].mediaId = man.entries[1].mediaId
  /\ mInput[1].mediaId = mInput[3].mediaId
  /\ mInput[1] # mInput[3]

\* ---- C9 (SpecManifest).  save, load from the same destination root, save:
\* the load returns the manifest as it was saved, and the second save leaves
\* version, createdAt, the destination root and every entry (keys, fields,
\* order) as they were; only updatedAt may differ and it does not decrease
\* (the wall clock is taken not to run backwards).
RoundTripAt(i) ==
  /\ mTrail[i].op = "save"
  /\ mTrail[i + 1].op = "load"
  /\ mTrail[i + 1].dir = mTrail[i].m.outputDir
  /\ mTrail[i + 2].op = "save"

C9_ManifestRoundTrip ==
  \A i \in 1..(Len(mTrail) - 2) :
    RoundTripAt(i) =>
      LET a == mTrail[i].m
          l == mTrail[i + 1].m
          b == mTrail[i + 2].m
      IN /\ l = a
         /\ b.entries = a.entries
         /\ getDownloadedIds(b) = getDownloadedIds(a)
         /\ b.outputDir = a.outputDir
         /\ b.createdAt = a.createdAt
         /\ b.version = a.version
         /\ b.updatedAt >= a.updatedAt
         /\ (i + 2 = Len(mTrail)) =>
               /\ disk[a.outputDir].st = "json"
               /\ JSONParse(disk[a.outputDir].text) = b

C9_Witness ==
  /\ Len(mTrail) = 4
  /\ mTrail[1].op = "add"
  /\ RoundTripAt(2)
  /\ Len(mTrail[4].m.entries) = 1
  /\ mTrail[4].m.updatedAt > mTrail[2].m.updatedAt
  /\ mTrail[4].m.createdAt < mTrail[2].m.updatedAt

\* ---- C10 (SpecBackoff).  Original statement: every delay lies within
\* [0.75 * b * 2^a, 1.25 * b * 2^a].  (Delays are in units of 1/Scale ms.)
C10_Original_WithinJitterBand ==
  bkDelay # -1 =>
    /\ 3 * bkBase * Pow2(bkAttempt) * RandSteps <= bkDelay
    /\ bkDelay <= 5 * bkBase * Pow2(bkAttempt) * RandSteps

\* ---- C10 (SpecBackoff), amended.  Every delay lies within
\* [min(0.75 * b * 2^a, 30000), min(1.25 * b * 2^a, 30000)]: the jitter band
\* cut at the 30000 ms ceiling.
C10_WithinCappedJitterBand ==
  bkDelay # -1 =>
    /\ Min(3 * bkBase * Pow2(bkAttempt) * RandSteps, BACKOFF_MAX_DELAY_MS * Scale)
         <= bkDelay
    /\ bkDelay
         <= Min(5 * bkBase * Pow2(bkAttempt) * RandSteps, BACKOFF_MAX_DELAY_MS * Scale)

C10_Witness ==
  /\ bkDelay # -1
  /\ 3 * bkBase * Pow2(bkAttempt) * RandSteps > BACKOFF_MAX_DELAY_MS * Scale
  /\ bkDelay = BACKOFF_MAX_DELAY_MS * Scale

\* ---- C11 (SpecBackoff).  Whatever the attempt number, the base delay and the
\* random draw, calculateBackoffDelay returns at most BACKOFF_MAX_DELAY_MS
\* (30000 ms); the fetchers hand that value unchanged to sleep.
C11_NeverAboveCeiling ==
  bkDelay # -1 => (bkDelay >= 0 /\ bkDelay <= BACKOFF_MAX_DELAY_MS * Scale)

\* the cap is what decides: the jittered exponential delay is above it
C11_Witness ==
  /\ bkDelay = BACKOFF_MAX_DELAY_MS * Scale
  /\ bkRand = RandSteps - 1
  /\ calculateBackoffDelay_uncapped(bkAttempt, bkBase, bkRand) > BACKOFF_MAX_DELAY_MS * Scale

\* ---- C12 (SpecFetch).  A failed attempt is followed by a further attempt
\* exactly when attempts remain and the failure is an HTTP status of 408, 429,
\* 500, 502, 503, 504 or a network-layer error; a URL without query part, a
\* non-URL exchange answer, an empty payload, a bundle without media and any
\* other status end the fetch with no further request and no retry callback.
\* The code breaks this for network errors whose message holds none of the
\* keywords it looks for ('fetch failed').
LastResponse == fResponses[Len(fResponses)]

TransientFailure(resp) ==
  \/ resp.t = "status" /\ resp.code \in {408, 429, 500, 502, 503, 504}
  \/ resp.t = "neterr"

C12_RetryIffTransientAndAttemptsRemain ==
  /\ fPc = "sleep" =>
       /\ TransientFailure(LastResponse) /\ fAttempt < fMaxRetries
       /\ Len(fRetryLog) = fAttempt + 1
  /\ (fPc = "done" /\ fOutcome = "failed" /\ fResponses # <<>>) =>
       /\ ~(TransientFailure(LastResponse) /\ fAttempt < fMaxRetries)
       /\ Len(fRetryLog) = fAttempt
  /\ (fPc = "done" /\ ~fHasQuery) =>
       (fOutcome = "failed" /\ fPosts = 0 /\ fRetryLog = <<>>)

Terminal == {"fetchFailed", "writeFailed", "saveFailed", "skipped", "downloaded"}
FailedOutcomes == {"fetchFailed", "writeFailed", "saveFailed"}
EndedAs(S) == {pos \in 1..Len(pending) : outcome[pos] \in S}

Recorded == {"recorded", "saveFailed", "downloaded"}
RecordedFor(id) == {pos \in EndedAs(Recorded) : IdAt(pos) = id}

\* ---- C14 (Spec).  Within a run an entry written into the manifest mapping is
\* never written again, changed or removed, and the mapping holds one entry
\* per identity, for every catalog the parser can produce: every identity is
\* recorded at most once in a run, never when it was loaded, and the loaded
\* entries stay.  The code breaks this for a catalog that repeats an identity.
C14_EntriesWrittenOnce ==
  (mode = "cli" /\ phase \in {"running", "completed"}) =>
    /\ \A id \in Positions :
         Cardinality(RecordedFor(id)) <= IF id \in loadedKeys THEN 0 ELSE 1
    /\ \A i, j \in 1..Len(man.entries) :
         man.entries[i].mediaId = man.entries[j].mediaId => i = j
    /\ loadedKeys \subseteq getDownloadedIds(man)

\* ---- C15 (Spec).  Every entry added to the manifest during a run belongs to
\* an item for which saveMemory returned a path in the same step, the entry's
\* filePath is that path and the file is there; an item whose fetch or write
\* failed, or that was skipped as existing, did not get an entry.
C15_EntryOnlyAfterSave ==
  (mode = "cli" /\ phase \in {"running", "completed"}) =>
    /\ \A i \in 1..Len(man.entries) :
         man.entries[i].mediaId \notin loadedKeys =>
           \E pos \in RecordedFor(man.entries[i].mediaId) :
             /\ man.entries[i].filePath = PathOf(pending[pos])
             /\ man.entries[i].filePath \in files
    /\ \A pos \in EndedAs({"fetchFailed", "writeFailed", "skipped"}) :
         isDownloaded(man, IdAt(pos)) => RecordedFor(IdAt(pos)) # {}

\* the first item's write fails, the second is saved and recorded
C15_Witness ==
  /\ mode = "cli" /\ phase = "completed" /\ DistinctIds /\ Len(pending) = 2
  /\ outcome[1] = "writeFailed" /\ outcome[2] = "downloaded"
  /\ getDownloadedIds(man) = {IdAt(2)}

NeverPopped == {pos \in 1..Len(pending) : popCount[pos] = 0}
NoPopOnceCancelled == [][aborted => popCount' = popCount]_vars
InFlightEnds ==
  (mode = "batch" /\ phase = "completed") =>
     \A pos \in 1..Len(pending) : popCount[pos] = 1 => outcome[pos] \in Terminal

\* C16 as stated, for every catalog: in the result of a cancelled run every
\* item that was never popped is reported as 'Download was cancelled'
C16_Original_UnpoppedReportedCancelled ==
  (mode = "batch" /\ phase = "completed") =>
     \A pos \in NeverPopped : output[pos].res = "cancelled"

\* ---- C16 (Spec).  Once the cancellation signal is raised no worker pops
\* another item, the items in flight end with their own outcome, and, the
\* identities being pairwise distinct, every item never popped is reported as
\* 'Download was cancelled'.
C16_CancelStopsPopping ==
  /\ NoPopOnceCancelled
  /\ [](InFlightEnds)
  /\ [](DistinctIds => C16_Original_UnpoppedReportedCancelled)

\* cancelled while the first item is in flight: it succeeds, the second is
\* reported as cancelled
C16_Witness ==
  /\ mode = "batch" /\ phase = "completed" /\ aborted /\ DistinctIds
  /\ Len(catalog) = 2 /\ NeverPopped = {2}
  /\ output[1].res = "success" /\ output[2].res = "cancelled"

\* ---- C17 (Spec).  downloadMemoriesConcurrent returns one result per input
\* item, result i being that of input item i, whatever the order in which the
\* workers finish, the identities being pairwise distinct.
C17_ResultsInInputOrder ==
  (mode = "batch" /\ phase = "completed" /\ DistinctIds) =>
    /\ Len(output) = Len(catalog)
    /\ \A i \in 1..Len(catalog) :
         /\ output[i].pos = i
         /\ output[i].res = CASE outcome[i] = "downloaded" -> "success"
                               [] outcome[i] = "fetchFailed" -> "failed"
                               [] OTHER -> "cancelled"

\* two workers, the second item failed and the first succeeded
C17_Witness ==
  /\ mode = "batch" /\ phase = "completed" /\ DistinctIds /\ ~aborted
  /\ concurrency = 2 /\ launched = 2 /\ Len(catalog) = 2
  /\ output[1].res = "success" /\ output[2].res = "failed"

\* ---- extractMediaFromZip
MainJpg == <<"m", "a", "i", "n">> \o DotJpg
ClipMp4 == <<"c", "l", "i", "p">> \o DotMp4
NamesOf(entries) == [i \in 1..Len(entries) |-> entries[i].entryName]
Extracted == zResult.value[1]

\* C18: a container with the entries overlay.png and main.jpg, in either order,
\* yields base kind jpg and a non-null overlay, and a container with only
\* clip.mp4 yields base kind mp4 and a null overlay, whatever media type is
\* passed in and whatever the entries hold.
C18_KnownBundles ==
  zResult.done =>
    /\ NamesOf(zEntries) \in {<<OverlayPng, MainJpg>>, <<MainJpg, OverlayPng>>}
         => /\ zResult.ok
            /\ Extracted.baseMediaType = "jpg"
            /\ Extracted.overlay # Null
    /\ NamesOf(zEntries) = <<ClipMp4>>
         => /\ zResult.ok
            /\ Extracted.baseMediaType = "mp4"
            /\ Extracted.overlay = Null

C18_Witness ==
  /\ zResult.done
  /\ NamesOf(zEntries) = <<MainJpg, OverlayPng>>
  /\ zMediaType = "Video"
  /\ Extracted.baseMediaType = "jpg"

IsMediaName(name) ==
  \/ endsWith(name, DotJpg) \/ endsWith(name, DotJpeg) \/ endsWith(name, DotPng)
  \/ endsWith(name, DotMp4) \/ endsWith(name, DotMov)
NoUsableMedia(entries) ==
  \A i \in 1..Len(entries) :
    entries[i].isDirectory \/ ~IsMediaName(toLowerCase(entries[i].entryName))

\* C19: on a container with no entries, only directories, or only entries that
\* are none of jpg/jpeg/png/mp4/mov, extractMediaFromZip rejects with the
\* DownloadError 'No media file found in ZIP archive' and delivers neither a
\* base nor an overlay.
C19_NoMediaIsAnError ==
  (zResult.done /\ NoUsableMedia(zEntries)) =>
    /\ ~zResult.ok
    /\ zResult.value = <<>>
    /\ zResult.error = <<NoMediaError>>

C19_Witness ==
  /\ zResult.done
  /\ Len(zEntries) = 2
  /\ zEntries[1].isDirectory
  /\ ~zEntries[2].isDirectory /\ NoUsableMedia(zEntries)
  /\ ~zResult.ok

\* C20: whenever extractMediaFromZip succeeds, the base buffer it returns has
\* length > 0, also for containers whose media entries have zero length.
C20_BaseNeverEmpty ==
  zResult.ok => Len(Extracted.baseMedia[1]) > 0

\* ---- checkUrlExpiration
\* the number the ts parameter was written from
IssuedAt == IF xMade.lead = <<"-">> THEN 0 - xMade.n ELSE xMade.n
Age == xNow - IssuedAt
NearestTenth(tenths, ageMs) ==
  LET diff == 10 * ageMs - tenths * MsPerHour
  IN 2 * diff <= MsPerHour /\ 2 * diff >= 0 - MsPerHour
ComputedFromIssuedAt ==
  /\ xResult.info.isExpired = (Age > xThreshold * MsPerHour)
  /\ NearestTenth(xResult.info.ageTenths, Age)
  /\ xResult.info.timestamp = Some(IssuedAt)

\* C21 (as stated, with "cannot be parsed" read as "is not an integer"): the
\* result is isExpired=false, ageHours=0, timestamp=null whenever the url does
\* not parse, has no ts parameter, or the parameter is not the decimal text
\* of an integer; otherwise it is computed from the age now - ts.
C21_Original_FailOpenUnlessInteger ==
  xResult.done =>
    IF xMade.kind = "number" /\ xMade.rest = <<>>
      THEN ComputedFromIssuedAt
      ELSE xResult.info = UnknownExpiration

\* C21 (amended): the result is isExpired=false, ageHours=0, timestamp=null
\* whenever the url does not parse, has no ts parameter, or the parameter does
\* not start (after white space and a sign) with a digit; otherwise, with ts
\* the leading integer of the parameter, isExpired is true exactly when
\* now - ts is more than t hours, and ageHours is that age rounded to one decimal.
C21_FailOpenUnlessLeadingInteger ==
  xResult.done =>
    IF xMade.kind = "number"
      THEN ComputedFromIssuedAt
      ELSE xResult.info = UnknownExpiration

\* a ts 7 hours old with the threshold of 6 hours is expired, age 7.0
C21_Witness ==
  /\ xResult.done
  /\ xMade.kind = "number" /\ xMade.rest = <<>> /\ xMade.lead = <<>>
  /\ Age = 7 * MsPerHour /\ xThreshold = URL_EXPIRATION_HOURS
  /\ xResult.info.isExpired /\ xResult.info.ageTenths = 70

\* ---- loadManifest
LoadedFile == disk[lResult.dir]

\* C22: loadManifest returns a fresh manifest with no entries when the file is
\* absent or holds another version (the stored entries are dropped); when the
\* file holds the current version it returns the stored manifest with its
\* entries unchanged; any other content is raised as an error.  The file is
\* never modified.
C22_LoadCases ==
  lResult.done =>
    CASE LoadedFile.st = "absent" \/
         (LoadedFile.st = "json" /\ LoadedFile.text.version # MANIFEST_VERSION) ->
           /\ lResult.ok
           /\ lResult.manifest = createManifest(lResult.dir, clock)
           /\ lResult.manifest.entries = <<>>
      [] LoadedFile.st = "json" /\ LoadedFile.text.version = MANIFEST_VERSION ->
           /\ lResult.ok
           /\ JSONStringify(lResult.manifest) = LoadedFile.text
      [] OTHER -> ~lResult.ok /\ man = NoManifest

C22_FileUntouched == [][disk' = disk]_vars

C22_LoadManifest == []C22_LoadCases /\ C22_FileUntouched

\* a stored manifest of another version with entries was loaded as a fresh one
C22_Witness ==
  /\ lResult.done /\ lResult.ok
  /\ LoadedFile.st = "json" /\ LoadedFile.text.version # MANIFEST_VERSION
  /\ LoadedFile.text.entries # <<>>
  /\ lResult.manifest.entries = <<>>

\* ---- skip-existing and write failures
Becomes(i, what) == outcome[i] # what /\ outcome'[i] = what
LeavesSaveCheck(w) == wpc[w] = "save" /\ wpc'[w] # "save" /\ phase' = "running"

\* C23: when skip-existing is requested and the item's target path exists, the
\* item increments the skipped counter only, the existing file is not written
\* and no manifest entry is added; any other failure of the write increments
\* the failed counter only.
C23_SkipCountsSkippedOnly ==
  [][\A w \in Workers :
       (LeavesSaveCheck(w) /\ skipExisting /\ PathOf(pending[wItem[w]]) \in files)
         => /\ Becomes(wItem[w], "skipped")
            /\ stats' = [stats EXCEPT !.skipped = @ + 1]
            /\ files' = files /\ mediaWrites' = mediaWrites
            /\ man' = man /\ disk' = disk]_vars

C23_OnlyExistingIsSkipped ==
  [][\A i \in Positions :
       Becomes(i, "skipped") => skipExisting /\ PathOf(pending[i]) \in files]_vars

C23_WriteFailureCountsFailedOnly ==
  [][\A i \in Positions :
       Becomes(i, "writeFailed")
         => /\ stats' = [stats EXCEPT !.failed = @ + 1]
            /\ man' = man /\ disk' = disk]_vars

C23_SkipVersusFailure ==
  /\ C23_SkipCountsSkippedOnly
  /\ C23_OnlyExistingIsSkipped
  /\ C23_WriteFailureCountsFailedOnly

C23_Witness ==
  /\ \E i \in Positions : outcome[i] = "skipped"
  /\ \E i \in Positions : outcome[i] = "writeFailed"
  /\ stats.skipped = 1 /\ stats.failed = 1 /\ stats.downloaded = 0

\* ---- processMemory, one item
ItemEnded == pPc = "end"
Degraded == pEvents \cap {"compositeFailed", "tagFailed"} # {}

\* C24: a compositing failure or a tagging failure never makes a failed item of
\* an item whose fetch and write succeed: the item is written, counted as
\* downloaded and gets its manifest entry, and it is counted as failed only
\* if the manifest save itself fails.
C24_DegradedStillCompletes ==
  (ItemEnded /\ Degraded /\ "fetchFailed" \notin pEvents /\ "writeFailed" \notin pEvents
     /\ "skipped" \notin pEvents)
    => /\ pWritten /\ pEntry
       /\ pStats.downloaded = 1
       /\ pStats.failed = IF "manifestSaveFailed" \in pEvents THEN 1 ELSE 0

C24_Witness ==
  /\ ItemEnded
  /\ {"compositeFailed", "tagFailed"} \subseteq pEvents
  /\ pStats.downloaded = 1 /\ pStats.failed = 0 /\ pEntry

\* C28: the POST requests issued for one item processed with retry ceiling
\* maxRetries = n number at most n + 1.
C28_PostsWithinCeiling ==
  pPosts <= pCfg.maxRetries + 1

\* the POST requests of one fetch of the item number at most n + 1, and an item
\* has at most two fetches
C28_PostsWithinTwoFetches ==
  /\ pPosts <= 2 * (pCfg.maxRetries + 1)
  /\ "overlayFetchFailed" \notin pEvents => pPosts <= pCfg.maxRetries + 1

\* ---- dry run
\* C25: a dry run issues no network request, creates no file under the
\* destination root and neither loads nor writes the manifest: the files and
\* the manifest file are the same after the run as before it.
C25_DryRunTouchesNothing ==
  /\ [](mode = "dry" =>
          /\ man = NoManifest /\ disk = diskAtStart
          /\ fetchCount = NoCounts /\ popCount = NoCounts /\ mediaWrites = 0
          /\ queue = <<>> /\ launched = 0)
  /\ [][mode = "dry" => files' = files /\ disk' = disk]_vars

C25_Witness ==
  /\ mode = "dry" /\ phase = "listed"
  /\ disk[OutDir].st = "json" /\ files # {}

\* ---- manifest writers
ManifestWriters == {w \in Workers : wpc[w] = "mwrite"}

\* C26: at most one write of the manifest file is in progress at any time: no
\* two workers recording different items have the file open for writing at
\* the same time.
C26_OneManifestWriter ==
  \A v, w \in ManifestWriters : IdAt(wItem[v]) # IdAt(wItem[w]) => v = w

\* ---- counters of a run
\* C27: when a run of the CLI orchestrator returns, downloaded + skipped +
\* failed = total and images + videos = downloaded.
C27_CountersAddUp ==
  (mode = "cli" /\ phase = "completed") =>
    /\ stats.downloaded + stats.skipped + stats.failed = stats.total
    /\ stats.images + stats.videos = stats.downloaded

\* ---- termination
\* C29: every call settling, a run in progress eventually returns (unless the
\* process is interrupted), and when it returns every worker has terminated
\* and, without cancellation, the shared queue is empty.
C29_RunCompletes ==
  /\ (phase = "running") ~> (phase \in {"completed", "crashed"})
  /\ [](phase = "completed" =>
          /\ \A w \in Workers : wpc[w] \in {"idle", "done"}
          /\ ~aborted => queue = <<>>)

C29_Witness ==
  /\ phase = "completed" /\ ~aborted
  /\ Len(pending) = MaxItems /\ concurrency = MaxConcurrency
  /\ \A w \in Workers : wpc[w] = "done"

\* ---- expired bundle descriptors
FirstBundleUrlExpired ==
  /\ \E i \in 1..Len(catalog) : catalog[i].mediaDownloadUrl
  /\ exportAgeHours > URL_EXPIRATION_HOURS

LowerName(entry) == toLowerCase(entry.entryName)
IsLabeledPng(entry) ==
  ~entry.isDirectory /\ endsWith(LowerName(entry), DotPng)
    /\ includes(LowerName(entry), OverlayWord)
IsOtherPng(entry) ==
  ~entry.isDirectory /\ endsWith(LowerName(entry), DotPng)
    /\ ~includes(LowerName(entry), OverlayWord)
IsStill(entry) ==
  ~entry.isDirectory
    /\ (endsWith(LowerName(entry), DotJpg) \/ endsWith(LowerName(entry), DotJpeg))
IsClip(entry) == ~entry.isDirectory /\ endsWith(LowerName(entry), DotMp4)
StillOrClip(entry) == IsStill(entry) \/ IsClip(entry)
IndicesOf(entries, Is(_)) == {i \in 1..Len(entries) : Is(entries[i])}
LastOf(S) == CHOOSE i \in S : \A j \in S : j <= i
FirstOf(S) == CHOOSE i \in S : \A j \in S : i <= j

\* C31: the base asset is the last entry ending in .jpg/.jpeg/.mp4, of the
\* kind its extension gives; the overlay is the last .png entry whose name
\* contains 'overlay' when there is one, else the first other .png entry, else
\* none (names compared in lower case, directories skipped).
C31_FirstPassChoice ==
  zResult.done =>
    LET bases == IndicesOf(zEntries, StillOrClip)
        labeled == IndicesOf(zEntries, IsLabeledPng)
        others == IndicesOf(zEntries, IsOtherPng)
    IN /\ bases # {} =>
            /\ zResult.ok
            /\ Extracted.baseMedia = Some(zEntries[LastOf(bases)].data)
            /\ Extracted.baseMediaType =
                 IF IsStill(zEntries[LastOf(bases)]) THEN "jpg" ELSE "mp4"
       /\ zResult.ok =>
            Extracted.overlay =
              IF labeled # {} THEN Some(zEntries[LastOf(labeled)].data)
              ELSE IF others # {} THEN Some(zEntries[FirstOf(others)].data)
              ELSE Null

\* two unlabeled .png entries with different data: the first one stays the overlay
C31_Witness ==
  /\ zResult.done /\ zResult.ok
  /\ Len(zEntries) = 2
  /\ IsOtherPng(zEntries[1]) /\ IsOtherPng(zEntries[2])
  /\ zEntries[1].data # zEntries[2].data
  /\ Extracted.overlay = Some(zEntries[1].data)

\* ---- the kind of the base asset
KindOfItem(mediaType) == IF mediaType = "Image" THEN "jpg" ELSE "mp4"

\* C32: after a successful extraction the base asset's kind is the kind of the
\* item the bundle was fetched for: jpg for an Image item, mp4 for a Video item.
C32_BaseKindMatchesItem ==
  (zResult.done /\ zResult.ok) => Extracted.baseMediaType = KindOfItem(zMediaType)

\* ---- where the base asset and the overlay come from
\* C33: in a successful result with an overlay, the base asset and the overlay
\* are the data of two different entries of the container.
C33_BaseAndOverlayDiffer ==
  (zResult.done /\ zResult.ok /\ Extracted.overlay # Null) =>
    \E i, j \in 1..Len(zEntries) :
      /\ i # j
      /\ Extracted.baseMedia = Some(zEntries[i].data)
      /\ Extracted.overlay = Some(zEntries[j].data)

\* ---- an item whose bundle fetch failed
FellBack == "overlayFetchFailed" \in pEvents /\ "fetchFailed" \notin pEvents
SaveTroubles == {"skipped", "writeFailed", "manifestSaveFailed"}
CountedFailures == {"fetchFailed", "writeFailed", "manifestSaveFailed"}

\* C34, as stated: an item whose bundle fetch failed and whose plain fetch
\* succeeded ends written, counted as downloaded, recorded in the manifest,
\* with the failure counter at zero.
C34_Original_FallbackAlwaysSaved ==
  (pPc = "end" /\ FellBack) =>
    /\ pWritten /\ pEntry
    /\ pStats.downloaded = 1
    /\ pStats.failed = 0

\* C34, amended: the bundle fetch failure itself is never counted as a failure
\* (the failure counter counts the failed plain fetch, file write and manifest
\* save only); the item falls back to the plain fetch and is never composited;
\* and when the plain fetch succeeds and the save meets no existing file to
\* skip, no write failure and no manifest save failure, the item ends written,
\* counted as downloaded once, recorded, with the failure counter at zero.
C34_FallbackSavedUnlessSaveFails ==
  /\ pStats.failed = Cardinality(pEvents \cap CountedFailures)
  /\ "overlayFetchFailed" \in pEvents =>
        /\ pPc # "composite"
        /\ "compositeFailed" \notin pEvents
  /\ (pPc = "end" /\ FellBack /\ pEvents \cap SaveTroubles = {}) =>
        /\ pWritten /\ pEntry
        /\ pStats.downloaded = 1
        /\ pStats.failed = 0
        /\ pStats.skipped = 0

C34_Witness ==
  /\ pPc = "end" /\ FellBack /\ pEvents \cap SaveTroubles = {}
  /\ pCfg.maxRetries = MaxRetriesBound
  /\ pStats.retries = MaxRetriesBound
  /\ pWritten /\ pEntry /\ pStats.downloaded = 1

\* ---- pacing of the workers
\* worker i ends an item in this step
EndsItem(i) == pace.w[i].pc = "busy" /\ pace'.w[i] # pace.w[i]

\* C35: a worker that ends an item while the queue is not empty sleeps for the
\* configured delay before it pops again (with a zero delay the batch worker
\* does not sleep at all): the pop of its next item comes no sooner than the
\* delay after the end of the previous one; a worker never starts a sleep when
\* the queue is empty, it ends instead.
C35_WorkerPacing ==
  /\ [](\A i \in Threads :
          /\ pace.w[i].gap # NoTime => pace.w[i].gap >= pace.delay
          /\ pace.w[i].pc = "sleep" => pace.w[i].due - pace.w[i].ended >= pace.delay)
  /\ [][\A i \in Threads :
          EndsItem(i) =>
            /\ (pace.left > 0 /\ pace.delay > 0) => pace'.w[i].pc = "sleep"
            /\ pace.left = 0 => pace'.w[i].pc = "done"
            /\ pace'.w[i].pc = "sleep" => pace.left > 0]_vars

\* a worker slept the longest delay after an item and popped the next one
C35_Witness ==
  /\ pace.delay = MaxDelay
  /\ PaceConcurrency >= 2
  /\ \E i \in Threads : pace.w[i].pc = "busy" /\ pace.w[i].gap = pace.delay
  /\ \E i \in Threads : pace.w[i].pc = "done"

\* ---- the stagger of the start loop
\* C36: worker i (0-based) is started after sleeps that add up to
\* delay * i / actualConcurrency, in both orchestrators (asked sleeps are
\* counted in 1/actualConcurrency ms; worker i is thread i + 1).
C36_StaggerIsIndexShare ==
  \A t \in Threads :
    t <= pace.launched => pace.w[t].stagger = pace.delay * (t - 1)


----------------------------------------------------------------------------
\* C37: in a batch run over items of pairwise distinct identities, the progress
\* hook has been invoked exactly once for every item processed so far and for
\* nothing else; the k-th invocation carries completedCount k, which never
\* exceeds totalCount, the length of the input; and the item it reports is the
\* one whose result the calling worker has just stored -- in every interleaving
\* of the workers.
Processed == {i \in Positions : procCount[i] > 0}
C37_HookOncePerItem ==
  (mode = "batch" /\ DistinctIds) =>
    /\ hook.completed = Len(hook.calls)
    /\ Len(hook.calls) = Cardinality(Processed)
    /\ {hook.calls[k].recorded : k \in 1..Len(hook.calls)} = Processed
    /\ \A i \in Processed : procCount[i] = 1
    /\ \A k \in 1..Len(hook.calls) :
         /\ hook.calls[k].completedCount = k
         /\ hook.calls[k].completedCount <= hook.calls[k].totalCount
         /\ hook.calls[k].totalCount = Len(catalog)
         /\ hook.calls[k].item = hook.calls[k].recorded
    /\ \A j, k \in 1..Len(hook.calls) :
         j # k => hook.calls[j].item # hook.calls[k].item

\* a finished batch run of MaxConcurrency workers over MaxItems distinct items
\* whose first completion was not the first item of the input
C37_Witness ==
  /\ mode = "batch" /\ DistinctIds /\ phase = "completed"
  /\ launched = MaxConcurrency
  /\ Len(hook.calls) = MaxItems
  /\ hook.calls[1].item # 1
  /\ hook.calls[MaxItems].completedCount = MaxItems


----------------------------------------------------------------------------
\* C38: a manifest loaded from the destination root d and then saved is written
\* to the manifest file under d, the file it was read from, whatever outputDir
\* the file holds.
C38_SavedWhereLoaded ==
  lResult.saved => lResult.target = lResult.dir


----------------------------------------------------------------------------
\* C39: within a run, two items with distinct identities are never written to
\* the same output path: no two items of the run that were written and differ
\* in identity have the same path, and no two entries of the manifest share a
\* filePath.
Written(i) == outcome[i] \in {"recorded", "downloaded", "saveFailed"}
C39_DistinctItemsDistinctPaths ==
  /\ \A i, j \in 1..Len(pending) :
       (Written(i) /\ Written(j) /\ pending[i].mediaId # pending[j].mediaId)
         => PathOf(pending[i]) # PathOf(pending[j])
  /\ \A a, b \in 1..Len(man.entries) :
       a # b => man.entries[a].filePath # man.entries[b].filePath

====
